---- MODULE Spec2Model ----
(***************************************************************************)
(* LibraryMovementTracker: the ghost-buffer tracker (EnhancedTracker,      *)
(* core/enhanced_tracker.py) and the zone accountant (ZoneTracker,         *)
(* core/zone_tracker.py) as state machines.                                *)
(*                                                                         *)
(* Numbers.  Pixel coordinates are integers.  A centre is kept doubled     *)
(* (x1 + x2, y1 + y2) and a distance in half pixels, so that no half is    *)
(* lost; IoU values, thresholds and scores are exact fractions <<n, d>>    *)
(* with d > 0.  Python dicts are insertion ordered: ghost_tracks, whose    *)
(* iteration order decides a tie, is a sequence of records.                *)
(***************************************************************************)
EXTENDS Integers, Sequences, FiniteSets, TLC

VARIABLES
    \* EnhancedTracker
    ghost_buffer_frames,       \* configuration, fixed at construction
    ghost_iou_threshold,       \* configuration, a fraction <<n, d>>
    ghost_distance_threshold,  \* configuration, pixels
    frame_count,
    ghost_tracks,              \* sequence of GhostTrack records, in insertion order
    active_tracks,             \* function tracker_id -> bbox
    last_frame_active_ids,
    tracking_log,              \* the records the latest call appended to the log
    id_restorations,           \* ID_RESTORED_FROM_GHOST records in the whole log
    expired_ghosts,            \* the ghosts the latest call expired (the code lists
                               \* their IDs; the model keeps the records)
    tracked_detections,        \* what the base tracker returned in the latest call
    new_tracker_ids,           \* the IDs the latest call output, by detection
    \* ZoneTracker
    clock,                     \* datetime.now(), in milliseconds
    zt_frame_count,
    zone_entries,
    zone_exits,
    zone_durations,
    zone_current,
    analytics_data,
    \* what the whole tracking_log tells
    last_output_frame,         \* function ID -> the last frame whose records output
                               \* the ID; followed in the retirement runs only
    \* PoseTemporalDetector
    pt_keypoint_history,       \* function person_id -> ring of (keypoints, timestamp)
    pt_activity_history,       \* function person_id -> list of labels
    \* ActivityDetector
    ad_pose_history,           \* function person_id -> list of (centre, timestamp)
    ad_activity_history,       \* function person_id -> list of labels
    \* PoseActivityDetector
    pa_pose_history,           \* function person_id -> list of (keypoints, timestamp)
    pa_activity_history,       \* function person_id -> list of labels
    \* what the classifiers were asked and what they answered
    returned,                  \* <<>>, or <<the latest classify_activity call and the
                               \* label it returned>>; followed in the label runs only
    \* what GhostTrack.calculate_iou was asked and what it answered
    compared                   \* <<>>, or <<the latest comparison of its own: the
                               \* ghost, the other bbox and the IoU>>; followed in
                               \* the comparison runs only

tracker_vars == <<ghost_buffer_frames, ghost_iou_threshold, ghost_distance_threshold,
                  frame_count, ghost_tracks, active_tracks, last_frame_active_ids,
                  tracking_log, id_restorations, expired_ghosts, tracked_detections,
                  new_tracker_ids>>

zone_vars == <<clock, zt_frame_count, zone_entries, zone_exits, zone_durations,
               zone_current, analytics_data>>

classifier_vars == <<pt_keypoint_history, pt_activity_history, ad_pose_history,
                     ad_activity_history, pa_pose_history, pa_activity_history,
                     returned>>

vars == <<tracker_vars, zone_vars, last_output_frame, classifier_vars, compared>>

----------------------------------------------------------------------------
(* Bounds of the model *)

MaxFrames == 3      \* update_with_detections calls in a run
MaxDets == 2        \* detections in one frame
MaxId == 2          \* track IDs the base tracker issues: 1..MaxId
MaxBuffer == 2      \* ghost_buffer_frames is drawn from 1..MaxBuffer
CrossFrames == 5    \* calls in a run of the two-people-crossing scenario
MaxZones == 2       \* zones 0..MaxZones-1
MaxPersons == 2     \* person IDs 1..MaxPersons seen by the zone tracker
MaxClock == 10      \* the clock stops at MaxClock milliseconds
MaxEvents == 4      \* update_zone_tracking is called while the log is shorter
MaxZoneFrames == 1  \* frames counted by the zone tracker
MaxTimestamp == 36  \* the classifiers are called up to this frame
StampedSamples == 5 \* records of a history fed with timestamps in any order
MaxStamp == 2       \* those timestamps are drawn from 1..MaxStamp
FollowFrames == 4   \* calls in a run that follows a restored person
SparseFrames == 5   \* calls in a run of frames with at most one detection
SparseBuffer == 3   \* there, ghost_buffer_frames is drawn from 1..SparseBuffer

\* The sentinel of the base tracker: a detection with no track
NoTrack == -1

TrackIds == 1..MaxId

\* Bounding boxes (x1, y1, x2, y2) of the general model: one row of people of
\* the same size, so that centre distances are whole numbers
BoxAt(x1) == <<x1, 100, x1 + 100, 300>>
BoxA == <<100, 100, 200, 300>>
BoxB == <<150, 100, 250, 300>>
BoxD == <<300, 100, 400, 300>>
Boxes == {BoxA, BoxB, BoxD}

----------------------------------------------------------------------------
(* Arithmetic *)

Max(a, b) == IF a >= b THEN a ELSE b
Min(a, b) == IF a <= b THEN a ELSE b

\* fractions <<n, d>>, d > 0
RatLT(a, b) == a[1] * b[2] < b[1] * a[2]
RatGE(a, b) == ~RatLT(a, b)
RatGT(a, b) == RatLT(b, a)

RECURSIVE GCD(_, _)
GCD(a, b) == IF b = 0 THEN a ELSE GCD(b, a % b)

\* a fraction in lowest terms (the same number; keeps the products small)
Reduce(f) == IF f[1] = 0 THEN <<0, 1>>
             ELSE <<f[1] \div GCD(f[1], f[2]), f[2] \div GCD(f[1], f[2])>>

\* np.sqrt on the squares the model meets: the whole root, by bisection
RECURSIVE SqrtBetween(_, _, _)
SqrtBetween(n, lo, hi) ==
    IF lo >= hi THEN lo
    ELSE LET mid == (lo + hi + 1) \div 2
         IN IF mid <= n \div mid THEN SqrtBetween(n, mid, hi)
                                 ELSE SqrtBetween(n, lo, mid - 1)

Sqrt(n) == SqrtBetween(n, 0, n)

SetToSeqs(S) == {s \in [1..Cardinality(S) -> S] : \A x \in S : \E i \in DOMAIN s : s[i] = x}

----------------------------------------------------------------------------
(* GhostTrack *)

\* doubled: (x1 + x2, y1 + y2) stands for ((x1 + x2)/2, (y1 + y2)/2)
calculate_center(bbox) == <<bbox[1] + bbox[3], bbox[2] + bbox[4]>>

GhostTrack(tracker_id, bbox, last_seen_frame) ==
    [tracker_id |-> tracker_id, bbox |-> bbox,
     last_seen_frame |-> last_seen_frame, center |-> calculate_center(bbox)]

\* mutant: the intersection over the area of the ghost alone
calculate_iou_of_ghost(ghost, bbox) ==
    LET x1_i == Max(ghost.bbox[1], bbox[1])
        y1_i == Max(ghost.bbox[2], bbox[2])
        x2_i == Min(ghost.bbox[3], bbox[3])
        y2_i == Min(ghost.bbox[4], bbox[4])
        intersection == (x2_i - x1_i) * (y2_i - y1_i)
        area1 == (ghost.bbox[3] - ghost.bbox[1]) * (ghost.bbox[4] - ghost.bbox[2])
    IN  IF x2_i < x1_i \/ y2_i < y1_i THEN <<0, 1>>
        ELSE IF area1 > 0 THEN Reduce(<<intersection, area1>>) ELSE <<0, 1>>

calculate_iou(ghost, bbox) ==
    LET x1_i == Max(ghost.bbox[1], bbox[1])
        y1_i == Max(ghost.bbox[2], bbox[2])
        x2_i == Min(ghost.bbox[3], bbox[3])
        y2_i == Min(ghost.bbox[4], bbox[4])
        intersection == (x2_i - x1_i) * (y2_i - y1_i)
        area1 == (ghost.bbox[3] - ghost.bbox[1]) * (ghost.bbox[4] - ghost.bbox[2])
        area2 == (bbox[3] - bbox[1]) * (bbox[4] - bbox[2])
        union == area1 + area2 - intersection
    IN  IF x2_i < x1_i \/ y2_i < y1_i THEN <<0, 1>>
        ELSE IF union > 0 THEN Reduce(<<intersection, union>>) ELSE <<0, 1>>

\* in half pixels
calculate_distance(ghost, bbox) ==
    LET new_center == calculate_center(bbox)
        dx == new_center[1] - ghost.center[1]
        dy == new_center[2] - ghost.center[2]
    IN  Sqrt(dx * dx + dy * dy)

----------------------------------------------------------------------------
(* EnhancedTracker.update_with_detections *)

GhostIds(ghosts) == {ghosts[k].tracker_id : k \in DOMAIN ghosts}

GhostOf(ghosts, tracker_id) ==
    ghosts[CHOOSE k \in DOMAIN ghosts : ghosts[k].tracker_id = tracker_id]

\* mutant: the reclaimed ghost is not deleted
RemoveGhostForgotten(ghosts, ghost_id) == ghosts

\* del self.ghost_tracks[ghost_id]
RemoveGhost(ghosts, ghost_id) ==
    SelectSeq(ghosts, LAMBDA g : g.tracker_id # ghost_id)

\* the non-sentinel IDs of the base tracker's output
CurrentActiveIds(dets) ==
    {dets[i].tracker_id : i \in DOMAIN dets} \ {NoTrack}

\* active_tracks after the first loop: the last detection of an ID wins
RecordActive(active, dets) ==
    [tid \in DOMAIN active \cup CurrentActiveIds(dets) |->
        IF tid \in CurrentActiveIds(dets)
        THEN LET last == CHOOSE i \in DOMAIN dets :
                            /\ dets[i].tracker_id = tid
                            /\ \A j \in DOMAIN dets : dets[j].tracker_id = tid => j <= i
             IN  dets[last].xyxy
        ELSE active[tid]]

\* mutant: every ID of the previous frame is taken as lost
LostToPromoteAll(ghosts, active, last_ids, dets) ==
    {lost_id \in last_ids :
        lost_id \in DOMAIN active /\ lost_id \notin GhostIds(ghosts)}

\* the lost IDs that become ghosts
LostToPromote(ghosts, active, last_ids, dets) ==
    {lost_id \in last_ids \ CurrentActiveIds(dets) :
        lost_id \in DOMAIN active /\ lost_id \notin GhostIds(ghosts)}

\* order: the lost IDs in the order the set is iterated
RECURSIVE PromoteLost(_, _, _, _)
PromoteLost(ghosts, active, order, fc) ==
    IF order = <<>> THEN ghosts
    ELSE PromoteLost(Append(ghosts, GhostTrack(Head(order), active[Head(order)], fc - 1)),
                     active, Tail(order), fc)

\* mutant: a ghost lives one frame longer
IsExpiredLate(ghost, fc) == fc - ghost.last_seen_frame > ghost_buffer_frames + 1

IsExpired(ghost, fc) == fc - ghost.last_seen_frame > ghost_buffer_frames

ExpiredGhosts(ghosts, fc) == SelectSeq(ghosts, LAMBDA g : IsExpired(g, fc))

ExpireGhosts(ghosts, fc) == SelectSeq(ghosts, LAMBDA g : ~IsExpired(g, fc))

far_from_ghost(iou, distance) ==
    /\ distance > 2 * ghost_distance_threshold
    /\ RatLT(iou, ghost_iou_threshold)

suspicious_reassignment(ghosts, tracker_id, bbox) ==
    /\ tracker_id \in GhostIds(ghosts)
    /\ far_from_ghost(calculate_iou(GhostOf(ghosts, tracker_id), bbox),
                      calculate_distance(GhostOf(ghosts, tracker_id), bbox))

\* mutant: one of the two conditions is enough
match_criteria_either(iou, distance) ==
    \/ RatGE(iou, ghost_iou_threshold)
    \/ distance <= 2 * ghost_distance_threshold

match_criteria_met(iou, distance) ==
    /\ RatGE(iou, ghost_iou_threshold)
    /\ distance <= 2 * ghost_distance_threshold

\* 0.6 * iou + 0.4 * max(0, 1 - distance / ghost_distance_threshold)
MatchScore(iou, distance) ==
    Reduce(<<6 * iou[1] * 2 * ghost_distance_threshold
                + 4 * Max(0, 2 * ghost_distance_threshold - distance) * iou[2],
             10 * iou[2] * 2 * ghost_distance_threshold>>)

\* mutant: the sentinel is treated as an ID
NeedsGhostSearchAny(tracker_id, last_ids, suspicious) ==
    tracker_id \notin last_ids \/ suspicious

\* whether a detection is looked up in the ghost buffer
NeedsGhostSearch(tracker_id, last_ids, suspicious) ==
    (tracker_id # NoTrack /\ tracker_id \notin last_ids) \/ suspicious

\* mutant: a ghost with the same score replaces the best one so far
RECURSIVE BestGhostLast(_, _, _, _, _, _)
BestGhostLast(ghosts, used_ghost_ids, bbox, k, best_ghost_id, best_score) ==
    IF k > Len(ghosts) THEN best_ghost_id
    ELSE IF ghosts[k].tracker_id \in used_ghost_ids
         THEN BestGhostLast(ghosts, used_ghost_ids, bbox, k + 1, best_ghost_id, best_score)
    ELSE LET iou == calculate_iou(ghosts[k], bbox)
             distance == calculate_distance(ghosts[k], bbox)
             score == MatchScore(iou, distance)
         IN IF match_criteria_met(iou, distance) /\ RatGE(score, best_score)
            THEN BestGhostLast(ghosts, used_ghost_ids, bbox, k + 1,
                               <<ghosts[k].tracker_id>>, score)
            ELSE BestGhostLast(ghosts, used_ghost_ids, bbox, k + 1,
                               best_ghost_id, best_score)

\* the loop over ghost_tracks.items(): <<>> for None, else <<best_ghost_id>>
RECURSIVE BestGhost(_, _, _, _, _, _)
BestGhost(ghosts, used_ghost_ids, bbox, k, best_ghost_id, best_score) ==
    IF k > Len(ghosts) THEN best_ghost_id
    ELSE IF ghosts[k].tracker_id \in used_ghost_ids
         THEN BestGhost(ghosts, used_ghost_ids, bbox, k + 1, best_ghost_id, best_score)
    ELSE LET iou == calculate_iou(ghosts[k], bbox)
             distance == calculate_distance(ghosts[k], bbox)
             score == MatchScore(iou, distance)
         IN IF match_criteria_met(iou, distance) /\ RatGT(score, best_score)
            THEN BestGhost(ghosts, used_ghost_ids, bbox, k + 1,
                           <<ghosts[k].tracker_id>>, score)
            ELSE BestGhost(ghosts, used_ghost_ids, bbox, k + 1,
                           best_ghost_id, best_score)

\* mutant: the ghost is neither marked used nor deleted
RestoreFromGhostReusable(st, fc, i, tracker_id, bbox, best_ghost_id, attempt) ==
    [st EXCEPT !.active = [tid \in DOMAIN st.active \cup {best_ghost_id} |->
                              IF tid = best_ghost_id THEN bbox ELSE st.active[tid]],
               !.ids = Append(st.ids, best_ghost_id),
               !.log = st.log \o attempt \o
                       <<[frame |-> fc, event |-> "ID_RESTORED_FROM_GHOST",
                          bytetrack_id |-> tracker_id, restored_id |-> best_ghost_id,
                          bbox_index |-> i - 1]>>]

\* a matching ghost was found: use its ID
RestoreFromGhost(st, fc, i, tracker_id, bbox, best_ghost_id, attempt) ==
    [ghosts |-> RemoveGhost(st.ghosts, best_ghost_id),
     active |-> [tid \in DOMAIN st.active \cup {best_ghost_id} |->
                    IF tid = best_ghost_id THEN bbox ELSE st.active[tid]],
     ids |-> Append(st.ids, best_ghost_id),
     used |-> st.used \cup {best_ghost_id},
     log |-> st.log \o attempt \o
             <<[frame |-> fc, event |-> "ID_RESTORED_FROM_GHOST",
                bytetrack_id |-> tracker_id, restored_id |-> best_ghost_id,
                bbox_index |-> i - 1]>>]

\* mutant: the new ID is output without a record of its own
KeepNewIdUnlogged(st, fc, i, tracker_id, attempt) ==
    [st EXCEPT !.ids = Append(st.ids, tracker_id),
               !.log = st.log \o attempt]

\* no ghost match: keep the ID of the base tracker
KeepNewId(st, fc, i, tracker_id, attempt) ==
    [st EXCEPT !.ids = Append(st.ids, tracker_id),
               !.log = st.log \o attempt \o
                       <<[frame |-> fc, event |-> "NEW_ID_ASSIGNED",
                          bytetrack_id |-> tracker_id, bbox_index |-> i - 1]>>]

ContinueId(st, fc, i, tracker_id) ==
    [st EXCEPT !.ids = Append(st.ids, tracker_id),
               !.log = st.log \o
                       <<[frame |-> fc, event |-> "ID_CONTINUED",
                          tracker_id |-> tracker_id, bbox_index |-> i - 1]>>]

\* one turn of the loop over tracked_detections.tracker_id
ProcessDetection(st, fc, last_ids, i, det) ==
    LET tracker_id == det.tracker_id
        bbox == det.xyxy
        suspicious == suspicious_reassignment(st.ghosts, tracker_id, bbox)
        flagged == IF suspicious
                   THEN <<[frame |-> fc, event |-> "SUSPICIOUS_REASSIGNMENT_DETECTED",
                           bytetrack_id |-> tracker_id, bbox_index |-> i - 1,
                           ghost_id_in_buffer |-> tracker_id]>>
                   ELSE <<>>
        best_ghost_id == BestGhost(st.ghosts, st.used, bbox, 1, <<>>, <<0, 1>>)
        attempt == flagged \o
                   <<[frame |-> fc, event |-> "GHOST_MATCHING_ATTEMPT",
                      bytetrack_id |-> tracker_id, bbox_index |-> i - 1,
                      was_suspicious |-> suspicious,
                      best_ghost_id |-> best_ghost_id]>>
    IN  IF NeedsGhostSearch(tracker_id, last_ids, suspicious)
        THEN IF best_ghost_id # <<>>
             THEN RestoreFromGhost(st, fc, i, tracker_id, bbox, best_ghost_id[1], attempt)
             ELSE KeepNewId(st, fc, i, tracker_id, attempt)
        ELSE ContinueId(st, fc, i, tracker_id)

RECURSIVE ProcessDetections(_, _, _, _, _)
ProcessDetections(st, fc, last_ids, dets, i) ==
    IF i > Len(dets) THEN st
    ELSE ProcessDetections(ProcessDetection(st, fc, last_ids, i, dets[i]),
                           fc, last_ids, dets, i + 1)

\* mutant: nothing is dropped from active_tracks
CleanActiveNever(active, final_active_ids, ghosts) == active

\* mutant: only the IDs that are output are kept
CleanActiveOutputOnly(active, final_active_ids, ghosts) ==
    [tid \in {t \in DOMAIN active : t \in final_active_ids} |-> active[tid]]

\* active_tracks keeps the IDs that are output or still ghosts
CleanActive(active, final_active_ids, ghosts) ==
    [tid \in {t \in DOMAIN active : t \in final_active_ids \/ t \in GhostIds(ghosts)}
        |-> active[tid]]

CountRestored(log) ==
    Cardinality({k \in DOMAIN log : log[k].event = "ID_RESTORED_FROM_GHOST"})

\* dets: what base_tracker.update_with_detections returns for the frame.
\* (\E x \in {e} binds x to the value of e, computed once.)
update_with_detections(dets) ==
    LET fc == frame_count + 1
    IN  \E active1 \in {RecordActive(active_tracks, dets)} :
        \E order \in SetToSeqs(LostToPromote(ghost_tracks, active1,
                                             last_frame_active_ids, dets)) :
        \E ghosts1 \in {PromoteLost(ghost_tracks, active1, order, fc)} :
        \E ghosts2 \in {ExpireGhosts(ghosts1, fc)} :
        \E st \in {ProcessDetections([ghosts |-> ghosts2, active |-> active1,
                                      ids |-> <<>>, used |-> {}, log |-> <<>>],
                                     fc, last_frame_active_ids, dets, 1)} :
        LET final_active_ids == {st.ids[k] : k \in DOMAIN st.ids}
        IN  /\ frame_count' = fc
            /\ tracked_detections' = dets
            /\ ghost_tracks' = st.ghosts
            /\ active_tracks' = CleanActive(st.active, final_active_ids, st.ghosts)
            /\ last_frame_active_ids' = final_active_ids
            /\ new_tracker_ids' = st.ids
            /\ tracking_log' = st.log
            /\ id_restorations' = id_restorations + CountRestored(st.log)
            /\ expired_ghosts' = ExpiredGhosts(ghosts1, fc)
            /\ UNCHANGED <<ghost_buffer_frames, ghost_iou_threshold,
                           ghost_distance_threshold>>

----------------------------------------------------------------------------
(* The general specification of the tracker: any base-tracker output *)

Detections == [xyxy : Boxes, tracker_id : TrackIds \cup {NoTrack}]

DetectionLists == UNION {[1..n -> Detections] : n \in 0..MaxDets}

\* the provisional IDs of a frame are distinct, the sentinel apart
DistinctIds(dets) ==
    \A i, j \in DOMAIN dets :
        (i # j /\ dets[i].tracker_id # NoTrack) => dets[i].tracker_id # dets[j].tracker_id

\* EnhancedTracker.__init__
TrackerInit ==
    /\ compared = <<>>
    /\ last_output_frame = <<>>
    /\ frame_count = 0
    /\ ghost_tracks = <<>>
    /\ active_tracks = <<>>
    /\ last_frame_active_ids = {}
    /\ tracking_log = <<>>
    /\ id_restorations = 0
    /\ expired_ghosts = <<>>
    /\ tracked_detections = <<>>
    /\ new_tracker_ids = <<>>

\* ZoneTracker.__init__
ZoneInit ==
    /\ clock = 0
    /\ zt_frame_count = 0
    /\ zone_entries = <<>>
    /\ zone_exits = <<>>
    /\ zone_durations = <<>>
    /\ zone_current = <<>>
    /\ analytics_data = <<>>

\* PoseTemporalDetector.__init__, ActivityDetector.__init__,
\* PoseActivityDetector.__init__
ClassifierInit ==
    /\ pt_keypoint_history = <<>>
    /\ pt_activity_history = <<>>
    /\ ad_pose_history = <<>>
    /\ ad_activity_history = <<>>
    /\ pa_pose_history = <<>>
    /\ pa_activity_history = <<>>
    /\ returned = <<>>

Init ==
    /\ ghost_buffer_frames \in 1..MaxBuffer
    /\ ghost_iou_threshold = <<3, 10>>
    /\ ghost_distance_threshold = 150
    /\ TrackerInit
    /\ ZoneInit
    /\ ClassifierInit

Frame ==
    /\ frame_count < MaxFrames
    /\ \E dets \in DetectionLists : update_with_detections(dets)
    /\ UNCHANGED <<zone_vars, last_output_frame, compared, classifier_vars>>

Next == Frame

Spec == Init /\ [][Next]_vars

----------------------------------------------------------------------------
(* Longer runs: at most one detection in a frame *)

SparseInit ==
    /\ ghost_buffer_frames \in 1..SparseBuffer
    /\ ghost_iou_threshold = <<3, 10>>
    /\ ghost_distance_threshold = 150
    /\ TrackerInit
    /\ ZoneInit
    /\ ClassifierInit

SparseFrame ==
    /\ frame_count < SparseFrames
    /\ \E dets \in {d \in DetectionLists : Len(d) <= 1} : update_with_detections(dets)
    /\ UNCHANGED <<zone_vars, last_output_frame, compared, classifier_vars>>

SparseNext == SparseFrame

SpecSparse == SparseInit /\ [][SparseNext]_vars

\* Retirement runs: the same frames, with the last frame that output each ID
\* read off the records of the call
LastOutput(last, ids, fc) ==
    [tid \in DOMAIN last \cup ({ids[i] : i \in DOMAIN ids} \ {NoTrack}) |->
        IF \E i \in DOMAIN ids : ids[i] = tid THEN fc ELSE last[tid]]

RetireFrame ==
    /\ frame_count < SparseFrames
    /\ \E dets \in {d \in DetectionLists : Len(d) <= 1} : update_with_detections(dets)
    /\ last_output_frame' = LastOutput(last_output_frame, new_tracker_ids', frame_count')
    /\ UNCHANGED <<zone_vars, compared, classifier_vars>>

RetireNext == RetireFrame

SpecRetire == SparseInit /\ [][RetireNext]_vars

----------------------------------------------------------------------------
(* Scenarios with the tracker settings of the application *)

\* EnhancedTracker.__init__ defaults
DefaultConfig ==
    [ghost_buffer_frames |-> 90, ghost_iou_threshold |-> <<3, 10>>,
     ghost_distance_threshold |-> 150]

\* ZoneAnalyzer.__init__
AnalyzerConfig ==
    [ghost_buffer_frames |-> 150, ghost_iou_threshold |-> <<1, 5>>,
     ghost_distance_threshold |-> 200]

Configured(cfg) ==
    /\ ghost_buffer_frames = cfg.ghost_buffer_frames
    /\ ghost_iou_threshold = cfg.ghost_iou_threshold
    /\ ghost_distance_threshold = cfg.ghost_distance_threshold

ShiftX(bbox, dx) == <<bbox[1] + dx, bbox[2], bbox[3] + dx, bbox[4]>>

\* Brief occlusion: one person, tracked as ID 1 from start, who stands or walks
\* right by step pixels a frame, is not detected in the frames dropped and is
\* detected again at back in frame last, with the fresh ID 2
Occlusion ==
    [start |-> <<100, 100, 200, 300>>, step |-> 5, dropped |-> 40..60,
     back |-> <<200, 100, 300, 300>>, last |-> 61]

\* what the base tracker returns for frame fc
OcclusionDetections(fc) ==
    IF fc = 1 THEN {<<[xyxy |-> Occlusion.start, tracker_id |-> 1]>>}
    ELSE IF fc = Occlusion.last THEN {<<[xyxy |-> Occlusion.back, tracker_id |-> 2]>>}
    ELSE IF fc \in Occlusion.dropped THEN {<<>>}
    ELSE IF fc = 2
         THEN {<<[xyxy |-> Occlusion.start, tracker_id |-> 1]>>,
               <<[xyxy |-> ShiftX(Occlusion.start, Occlusion.step), tracker_id |-> 1]>>}
    ELSE IF tracked_detections[1].xyxy = Occlusion.start
         THEN {tracked_detections}
         ELSE {<<[xyxy |-> ShiftX(tracked_detections[1].xyxy, Occlusion.step),
                  tracker_id |-> 1]>>}

OcclusionInit ==
    /\ Configured(AnalyzerConfig)
    /\ TrackerInit
    /\ ZoneInit
    /\ ClassifierInit

OcclusionFrame ==
    /\ frame_count < Occlusion.last
    /\ \E dets \in OcclusionDetections(frame_count + 1) : update_with_detections(dets)
    /\ UNCHANGED <<zone_vars, last_output_frame, compared, classifier_vars>>

OcclusionNext == OcclusionFrame

SpecOcclusion == OcclusionInit /\ [][OcclusionNext]_vars

\* Cross-swap: two people, detected in every frame, walk towards each other;
\* the base tracker gives them the IDs 1 and 2 and at some frame swaps the two
\* IDs, for good
CrossIds(dets) == <<dets[1].tracker_id, dets[2].tracker_id>>

CrossDetections(fc) ==
    IF fc = 1
    THEN {<<[xyxy |-> BoxAt(100), tracker_id |-> 1],
            [xyxy |-> BoxAt(300), tracker_id |-> 2]>>}
    ELSE {<<[xyxy |-> p, tracker_id |-> ids[1]], [xyxy |-> q, tracker_id |-> ids[2]]>> :
            p \in {tracked_detections[1].xyxy, ShiftX(tracked_detections[1].xyxy, 50)},
            q \in {tracked_detections[2].xyxy, ShiftX(tracked_detections[2].xyxy, -50)},
            ids \in {CrossIds(tracked_detections), <<2, 1>>}}

CrossInit ==
    /\ Configured(DefaultConfig) \/ Configured(AnalyzerConfig)
    /\ TrackerInit
    /\ ZoneInit
    /\ ClassifierInit

CrossFrame ==
    /\ frame_count < CrossFrames
    /\ \E dets \in CrossDetections(frame_count + 1) : update_with_detections(dets)
    /\ UNCHANGED <<zone_vars, last_output_frame, compared, classifier_vars>>

CrossNext == CrossFrame

SpecCrossSwap == CrossInit /\ [][CrossNext]_vars

----------------------------------------------------------------------------
(* ZoneTracker *)

\* Times are in milliseconds; the clock advances by a step of ClockSteps, none
\* of them a multiple of 5 ms away from a rounding tie
ZoneIds == 0..(MaxZones - 1)
PersonIds == 1..MaxPersons
ClockSteps == {4, 6}

fps == 30

\* round(duration, 2), in hundredths of a second
Round2(ms) == (ms + 5) \div 10

\* round(frame_count / fps, 2), in hundredths of a second
frame_time_sec(fc) == (200 * fc + fps) \div (2 * fps)

\* d[k] = v on a dict
Put(d, k, v) == [x \in DOMAIN d \cup {k} |-> IF x = k THEN v ELSE d[x]]

ZT ==
    [zone_entries |-> zone_entries, zone_exits |-> zone_exits,
     zone_durations |-> zone_durations, zone_current |-> zone_current,
     analytics_data |-> analytics_data]

initialize_zone(zt, zone_id) ==
    IF zone_id \in DOMAIN zt.zone_entries
    THEN zt
    ELSE [zt EXCEPT !.zone_entries = Put(@, zone_id, <<>>),
                    !.zone_exits = Put(@, zone_id, <<>>),
                    !.zone_durations = Put(@, zone_id, <<>>),
                    !.zone_current = Put(@, zone_id, {})]

\* mutant: the entry time is written for every zone known so far
EnterZoneEverywhere(zt, zone_id, person_id, current_time, fc) ==
    [zt EXCEPT !.zone_entries =
                    [z \in DOMAIN @ |-> Put(@[z], person_id, current_time)],
               !.analytics_data =
                    Append(@, [timestamp |-> current_time, frame |-> fc,
                               frame_time_sec |-> frame_time_sec(fc),
                               person_id |-> person_id, zone_id |-> zone_id,
                               event |-> "entry", duration_sec |-> <<>>])]

\* mutant: the entry time of an earlier visit is kept
EnterZoneKeepFirst(zt, zone_id, person_id, current_time, fc) ==
    [zt EXCEPT !.zone_entries[zone_id] =
                    IF person_id \in DOMAIN @ THEN @ ELSE Put(@, person_id, current_time),
               !.analytics_data =
                    Append(@, [timestamp |-> current_time, frame |-> fc,
                               frame_time_sec |-> frame_time_sec(fc),
                               person_id |-> person_id, zone_id |-> zone_id,
                               event |-> "entry", duration_sec |-> <<>>])]

\* one round of the loop over new_entries
EnterZone(zt, zone_id, person_id, current_time, fc) ==
    [zt EXCEPT !.zone_entries[zone_id] = Put(@, person_id, current_time),
               !.analytics_data =
                    Append(@, [timestamp |-> current_time, frame |-> fc,
                               frame_time_sec |-> frame_time_sec(fc),
                               person_id |-> person_id, zone_id |-> zone_id,
                               event |-> "entry", duration_sec |-> <<>>])]

RECURSIVE EnterAll(_, _, _, _, _)
EnterAll(zt, zone_id, order, current_time, fc) ==
    IF order = <<>> THEN zt
    ELSE EnterAll(EnterZone(zt, zone_id, Head(order), current_time, fc),
                  zone_id, Tail(order), current_time, fc)

\* mutant: the last visit replaces the total
OverwriteDuration(total, duration) == duration

\* zone_durations[zone_id][person_id] += duration
AccumulateDuration(total, duration) == total + duration

\* mutant: the difference is taken the wrong way round
VisitDurationReversed(current_time, entry_time) == entry_time - current_time

\* (current_time - entry_time).total_seconds()
VisitDuration(current_time, entry_time) == current_time - entry_time

\* one round of the loop over exits
ExitZone(zt, zone_id, person_id, current_time, fc) ==
    LET zt1 == [zt EXCEPT !.zone_exits[zone_id] = Put(@, person_id, current_time)]
    IN  IF person_id \in DOMAIN zt.zone_entries[zone_id]
        THEN LET entry_time == zt.zone_entries[zone_id][person_id]
                 duration == VisitDuration(current_time, entry_time)
                 total == IF person_id \in DOMAIN zt.zone_durations[zone_id]
                          THEN zt.zone_durations[zone_id][person_id]
                          ELSE 0
             IN  [zt1 EXCEPT
                    !.zone_durations[zone_id] =
                        Put(@, person_id, AccumulateDuration(total, duration)),
                    !.analytics_data =
                        Append(@, [timestamp |-> current_time, frame |-> fc,
                                   frame_time_sec |-> frame_time_sec(fc),
                                   person_id |-> person_id, zone_id |-> zone_id,
                                   event |-> "exit",
                                   duration_sec |-> <<Round2(duration)>>])]
        ELSE zt1

RECURSIVE ExitAll(_, _, _, _, _)
ExitAll(zt, zone_id, order, current_time, fc) ==
    IF order = <<>> THEN zt
    ELSE ExitAll(ExitZone(zt, zone_id, Head(order), current_time, fc),
                 zone_id, Tail(order), current_time, fc)

\* mutant: the occupancy of the zone is never refreshed
StaleOccupancy(current, person_ids_in_zone) == current

\* zone_current[zone_id] = person_ids_in_zone.copy()
NextOccupancy(current, person_ids_in_zone) == person_ids_in_zone

\* mutant: everyone in the zone counts as entering
new_entries_all(zt, zone_id, person_ids_in_zone) == person_ids_in_zone

\* new_entries = person_ids_in_zone - self.zone_current[zone_id]
new_entries(zt, zone_id, person_ids_in_zone) ==
    person_ids_in_zone \ initialize_zone(zt, zone_id).zone_current[zone_id]

\* exits = self.zone_current[zone_id] - person_ids_in_zone
exits_of(zt, zone_id, person_ids_in_zone) ==
    initialize_zone(zt, zone_id).zone_current[zone_id] \ person_ids_in_zone

\* the tracker after a call at current_time in frame fc; entries and exits
\* are new_entries and exits in the order the loops walk them
ZoneUpdated(zt, zone_id, person_ids_in_zone, entries, exits, current_time, fc) ==
    LET zt2 == ExitAll(EnterAll(initialize_zone(zt, zone_id), zone_id, entries,
                                current_time, fc),
                       zone_id, exits, current_time, fc)
    IN  [zt2 EXCEPT !.zone_current[zone_id] = NextOccupancy(@, person_ids_in_zone)]

\* The sets new_entries and exits are walked in an order the model does not fix
update_zone_tracking(zone_id, person_ids_in_zone) ==
    \E entries \in SetToSeqs(new_entries(ZT, zone_id, person_ids_in_zone)) :
    \E exits \in SetToSeqs(exits_of(ZT, zone_id, person_ids_in_zone)) :
    \E zt2 \in {ZoneUpdated(ZT, zone_id, person_ids_in_zone, entries, exits,
                            clock, zt_frame_count)} :
        /\ zone_entries' = zt2.zone_entries
        /\ zone_exits' = zt2.zone_exits
        /\ zone_durations' = zt2.zone_durations
        /\ zone_current' = zt2.zone_current
        /\ analytics_data' = zt2.analytics_data
        /\ UNCHANGED <<clock, zt_frame_count>>

\* the summary get_zone_analytics returns once the zone is initialized
ZoneAnalytics(zone_id) ==
    [zone_id |-> zone_id,
     current_occupancy |-> Cardinality(zone_current[zone_id]),
     current_people |-> zone_current[zone_id],
     total_entries |-> Cardinality(DOMAIN zone_entries[zone_id]),
     total_exits |-> Cardinality(DOMAIN zone_exits[zone_id]),
     durations_by_person |-> zone_durations[zone_id]]

get_zone_analytics(zone_id) ==
    \E zt0 \in {initialize_zone(ZT, zone_id)} :
        /\ zone_entries' = zt0.zone_entries
        /\ zone_exits' = zt0.zone_exits
        /\ zone_durations' = zt0.zone_durations
        /\ zone_current' = zt0.zone_current
        /\ UNCHANGED <<analytics_data, clock, zt_frame_count>>

ZoneSpecInit ==
    /\ Configured(AnalyzerConfig)
    /\ TrackerInit
    /\ ZoneInit
    /\ ClassifierInit

ZoneUpdate ==
    /\ Len(analytics_data) < MaxEvents
    /\ \E zone_id \in ZoneIds, person_ids_in_zone \in SUBSET PersonIds :
          update_zone_tracking(zone_id, person_ids_in_zone)
    /\ UNCHANGED <<tracker_vars, last_output_frame, compared, classifier_vars>>

ZoneSummary ==
    /\ \E zone_id \in ZoneIds : get_zone_analytics(zone_id)
    /\ UNCHANGED <<tracker_vars, last_output_frame, compared, classifier_vars>>

\* datetime.now() moves on between calls
Tick ==
    /\ \E d \in ClockSteps : clock + d <= MaxClock /\ clock' = clock + d
    /\ UNCHANGED <<zt_frame_count, zone_entries, zone_exits, zone_durations,
                   zone_current, analytics_data>>
    /\ UNCHANGED <<tracker_vars, last_output_frame, compared, classifier_vars>>

\* zone_tracker.frame_count += 1 at the start of a frame
ZoneFrame ==
    /\ zt_frame_count < MaxZoneFrames
    /\ zt_frame_count' = zt_frame_count + 1
    /\ UNCHANGED <<clock, zone_entries, zone_exits, zone_durations,
                   zone_current, analytics_data>>
    /\ UNCHANGED <<tracker_vars, last_output_frame, compared, classifier_vars>>

ZoneNext == ZoneUpdate \/ ZoneSummary \/ Tick \/ ZoneFrame

SpecZone == ZoneSpecInit /\ [][ZoneNext]_vars

----------------------------------------------------------------------------
(* The zone tracker driven frame by frame *)

\* Zone entry/exit with dwell: at fps frames a second one person is inside
\* zone 0 from frame enter up to the frame before leave; a frame takes one of
\* the processing times (in ms), the same for the whole run
DwellRun ==
    [zone_id |-> 0, person_id |-> 1, enter |-> 30, leave |-> 120,
     processing |-> {20, 50}]

PresentAt(fc) ==
    IF DwellRun.enter <= fc /\ fc < DwellRun.leave THEN {DwellRun.person_id} ELSE {}

\* the zone update of the current frame has run
FrameDone ==
    \/ zt_frame_count = 0
    \/ /\ DwellRun.zone_id \in DOMAIN zone_current
       /\ zone_current[DwellRun.zone_id] = PresentAt(zt_frame_count)

\* cap.read() gives the next frame: zone_tracker.frame_count += 1, and the
\* wall clock has moved on by the time the frame took
DwellAdvance ==
    /\ zt_frame_count < DwellRun.leave
    /\ FrameDone
    /\ zt_frame_count' = zt_frame_count + 1
    /\ \E step \in (IF zt_frame_count = 0 THEN DwellRun.processing
                    ELSE {clock \div zt_frame_count}) :
          clock' = clock + step
    /\ UNCHANGED <<zone_entries, zone_exits, zone_durations, zone_current,
                   analytics_data>>
    /\ UNCHANGED <<tracker_vars, last_output_frame, compared, classifier_vars>>

DwellUpdate ==
    /\ zt_frame_count >= 1
    /\ update_zone_tracking(DwellRun.zone_id, PresentAt(zt_frame_count))
    /\ UNCHANGED <<tracker_vars, last_output_frame, compared, classifier_vars>>

DwellNext == DwellAdvance \/ DwellUpdate

SpecDwell == ZoneSpecInit /\ [][DwellNext]_vars

----------------------------------------------------------------------------
(* ZoneAnalyzer.process_video: the tracker, then the zone tracker, per frame *)

\* the bboxes that zone.trigger puts inside each zone; the zones overlap and
\* BoxD is outside all of them
ZoneBoxes == [z \in ZoneIds |-> IF z = 0 THEN {BoxA, BoxB} ELSE {BoxB}]

\* mutant: the detections without a valid tracker ID are not filtered out
PersonIdsUnfiltered(zone_idx, dets, ids) ==
    {ids[i] : i \in {j \in DOMAIN dets : dets[j].xyxy \in ZoneBoxes[zone_idx]}}

\* detections[detections.tracker_id != -1], then set(detections_in_zone.tracker_id)
PersonIdsInZone(zone_idx, dets, ids) ==
    {ids[i] : i \in {j \in DOMAIN dets :
                        ids[j] # NoTrack /\ dets[j].xyxy \in ZoneBoxes[zone_idx]}}

\* the states a call of update_zone_tracking can leave, from zt
ZoneUpdatesAt(zt, zone_id, ids, current_time, fc) ==
    {ZoneUpdated(zt, zone_id, ids, entries, exits, current_time, fc) :
        entries \in SetToSeqs(new_entries(zt, zone_id, ids)),
        exits \in SetToSeqs(exits_of(zt, zone_id, ids))}

\* for zone_idx, zone in enumerate(zones), from zone_idx on
RECURSIVE ZonesUpdated(_, _, _, _, _, _)
ZonesUpdated(zts, zone_idx, dets, ids, current_time, fc) ==
    IF zone_idx \notin ZoneIds THEN zts
    ELSE ZonesUpdated(
            UNION {ZoneUpdatesAt(zt, zone_idx, PersonIdsInZone(zone_idx, dets, ids),
                                 current_time, fc) : zt \in zts},
            zone_idx + 1, dets, ids, current_time, fc)

\* a frame: the tracker, then every zone; the frames of a run take the same
\* time each
PipelineFrame ==
    /\ frame_count < MaxFrames
    /\ \E dets \in {d \in DetectionLists : DistinctIds(d)} : update_with_detections(dets)
    /\ zt_frame_count' = zt_frame_count + 1
    /\ \E d \in (IF zt_frame_count = 0 THEN ClockSteps
                 ELSE {clock \div zt_frame_count}) :
          clock' = clock + d
    /\ \E zt \in ZonesUpdated({ZT}, 0, tracked_detections', new_tracker_ids',
                              clock', zt_frame_count') :
          /\ zone_entries' = zt.zone_entries
          /\ zone_exits' = zt.zone_exits
          /\ zone_durations' = zt.zone_durations
          /\ zone_current' = zt.zone_current
          /\ analytics_data' = zt.analytics_data
    /\ UNCHANGED <<last_output_frame, compared, classifier_vars>>

PipelineNext == PipelineFrame

SpecPipeline == Init /\ [][PipelineNext]_vars

----------------------------------------------------------------------------
(* PoseTemporalDetector *)

\* What detect_pose returns is an input of the model: <<>> for None, else
\* <<keypoints>>, the keypoints given by what the detector reads off them:
\* hip, the x coordinate of the hip centre in pixels (0: hips and knees not
\* detected), hip_angle, the shoulder-hip-knee angle, knee_angle, the
\* hip-knee-ankle angle, and head_tilt, all in degrees. Timestamps are frame
\* numbers, frame_count / fps seconds.
Keypoints ==
    [hip : {0, 500, 501, 520}, hip_angle : {90, 115, 170}, knee_angle : {90, 170},
     head_tilt : {0, 25, 30, 45}]

Poses == {<<>>} \cup {<<kp>> : kp \in Keypoints}

history_length == 30
standing_speed_threshold == 25
sitting_hip_angle_max == 120
\* mutant: the head tilt of the other pose detector
reading_head_angle_lower == 20

reading_head_angle_min == 30

Abs(x) == IF x < 0 THEN -x ELSE x

RatAdd(a, b) == Reduce(<<a[1] * b[2] + b[1] * a[2], a[2] * b[2]>>)

RECURSIVE RatSum(_, _)
RatSum(S, f) ==
    IF S = {} THEN <<0, 1>>
    ELSE LET k == CHOOSE x \in S : TRUE
         IN  RatAdd(f[k], RatSum(S \ {k}, f))

\* np.mean of the values f[k], k in S; 0 for no value
RatMean(S, f) ==
    IF S = {} THEN <<0, 1>>
    ELSE LET sum == RatSum(S, f)
         IN  Reduce(<<sum[1], sum[2] * Cardinality(S)>>)

\* s[-n:], for n > 0
LastN(s, n) == SubSeq(s, Max(1, Len(s) - n + 1), Len(s))

\* mutant: one item too many is dropped
RingAppendShort(ring, x, maxlen) ==
    LET longer == Append(ring, x)
    IN  IF Len(longer) >= maxlen
        THEN SubSeq(longer, Len(longer) - maxlen + 2, Len(longer))
        ELSE longer

\* mutant: nothing is dropped
RingAppendUnbounded(ring, x, maxlen) == Append(ring, x)

\* deque(maxlen).append, and list.append followed by [-maxlen:]
RingAppend(ring, x, maxlen) ==
    LET longer == Append(ring, x)
    IN  IF Len(longer) > maxlen
        THEN SubSeq(longer, Len(longer) - maxlen + 1, Len(longer))
        ELSE longer

\* the pairs (history[i], history[i - 1]) the velocity loops look at, by the
\* position of the later record: range(len - 1, max(0, len - back), -1)
RecentPairs(history, back) ==
    {k \in (Max(0, Len(history) - back) + 2)..Len(history) :
        history[k].timestamp - history[k - 1].timestamp > 0}

\* mutant: a pair without a positive interval is averaged in as 0
calculate_velocity_zero_filled(history) ==
    IF Len(history) < 2 THEN <<0, 1>>
    ELSE LET pairs == {k \in (Max(0, Len(history) - 5) + 2)..Len(history) :
                          history[k].keypoints.hip # 0 /\ history[k - 1].keypoints.hip # 0}
             velocity ==
                [k \in pairs |->
                    IF history[k].timestamp - history[k - 1].timestamp > 0
                    THEN <<Abs(history[k].keypoints.hip - history[k - 1].keypoints.hip) * fps,
                           history[k].timestamp - history[k - 1].timestamp>>
                    ELSE <<0, 1>>]
         IN  RatMean(pairs, velocity)

\* smoothed hip velocity in px per second, a fraction
calculate_velocity(history) ==
    IF Len(history) < 2 THEN <<0, 1>>
    ELSE LET pairs == {k \in RecentPairs(history, 5) :
                          history[k].keypoints.hip # 0 /\ history[k - 1].keypoints.hip # 0}
             velocity ==
                [k \in pairs |->
                    <<Abs(history[k].keypoints.hip - history[k - 1].keypoints.hip) * fps,
                      history[k].timestamp - history[k - 1].timestamp>>]
         IN  RatMean(pairs, velocity)

is_sitting(keypoints) ==
    keypoints.hip # 0 /\ keypoints.hip_angle < sitting_hip_angle_max

\* the label classify_activity gives after the warmup
TemporalActivity(history, keypoints) ==
    IF is_sitting(keypoints)
    THEN IF keypoints.head_tilt > reading_head_angle_min THEN "reading" ELSE "sitting"
    ELSE IF RatLT(calculate_velocity(history), <<standing_speed_threshold, 1>>)
         THEN IF keypoints.head_tilt > reading_head_angle_min
              THEN "reading_standing" ELSE "standing"
         ELSE "walking"

\* mutant: three records are enough
warmup_three == 3

\* the records a person's history must hold before a call classifies
warmup_samples == 5

PT ==
    [keypoint_history |-> pt_keypoint_history, activity_history |-> pt_activity_history]

\* PoseTemporalDetector.classify_activity, on the detector pt
TemporalClassified(pt, person_id, pose, timestamp) ==
    IF pose = <<>> THEN pt
    ELSE LET keypoints == pose[1]
             known == person_id \in DOMAIN pt.keypoint_history
             history == RingAppend(IF known THEN pt.keypoint_history[person_id] ELSE <<>>,
                                   [keypoints |-> keypoints, timestamp |-> timestamp],
                                   history_length)
             activities == IF known THEN pt.activity_history[person_id] ELSE <<>>
         IN  [keypoint_history |-> Put(pt.keypoint_history, person_id, history),
              activity_history |->
                Put(pt.activity_history, person_id,
                    IF Len(history) < warmup_samples THEN activities
                    ELSE RingAppend(activities, TemporalActivity(history, keypoints), 30))]

\* what that call returns
TemporalReturned(pt, person_id, pose, timestamp) ==
    IF pose = <<>> THEN "no_pose"
    ELSE LET history == TemporalClassified(pt, person_id, pose, timestamp)
                            .keypoint_history[person_id]
         IN  IF Len(history) < warmup_samples THEN "initializing"
             ELSE TemporalActivity(history, pose[1])

\* counts[activity] = counts.get(activity, 0) + 1, on a dict kept as the
\* sequence of its <<key, value>> pairs in insertion order
Counted(counts, activity) ==
    IF \E k \in DOMAIN counts : counts[k][1] = activity
    THEN [k \in DOMAIN counts |->
            IF counts[k][1] = activity THEN <<activity, counts[k][2] + 1>> ELSE counts[k]]
    ELSE Append(counts, <<activity, 1>>)

\* for activity in recent, from the i-th label on
RECURSIVE CountAll(_, _, _)
CountAll(recent, i, counts) ==
    IF i > Len(recent) THEN counts
    ELSE CountAll(recent, i + 1, Counted(counts, recent[i]))

\* mutant: a later key with the same count replaces the best one
RECURSIVE MaxKeyLast(_, _, _)
MaxKeyLast(counts, i, best) ==
    IF i > Len(counts) THEN counts[best][1]
    ELSE MaxKeyLast(counts, i + 1, IF counts[i][2] >= counts[best][2] THEN i ELSE best)

\* max(counts, key=counts.get): the keys are walked in insertion order and a
\* key replaces the best one when its count is greater
RECURSIVE MaxKey(_, _, _)
MaxKey(counts, i, best) ==
    IF i > Len(counts) THEN counts[best][1]
    ELSE MaxKey(counts, i + 1, IF counts[i][2] > counts[best][2] THEN i ELSE best)

\* PoseTemporalDetector.get_dominant_activity
get_dominant_activity(pt, person_id, window) ==
    IF person_id \notin DOMAIN pt.activity_history \/ pt.activity_history[person_id] = <<>>
    THEN "unknown"
    ELSE LET recent == LastN(pt.activity_history[person_id], window)
             counts == CountAll(recent, 1, <<>>)
         IN  MaxKey(counts, 2, 1)

\* mutant: the histories of every person go
PersonCleanedAll(pt, person_id) == [keypoint_history |-> <<>>, activity_history |-> <<>>]

\* PoseTemporalDetector.cleanup_person
PersonCleaned(pt, person_id) ==
    [keypoint_history |->
        [p \in DOMAIN pt.keypoint_history \ {person_id} |-> pt.keypoint_history[p]],
     activity_history |->
        [p \in DOMAIN pt.activity_history \ {person_id} |-> pt.activity_history[p]]]

----------------------------------------------------------------------------
(* ActivityDetector *)

standing_movement_threshold == 20
speed_threshold_walking == 100
speed_threshold_running == 300
pose_history_length == 15

\* the centre of a bbox; the bboxes of the model have whole-numbered centres
BoxCenter(bbox) == <<(bbox[1] + bbox[3]) \div 2, (bbox[2] + bbox[4]) \div 2>>

\* np.linalg.norm of the difference; whole for the positions of the model
Norm(a, b) == Sqrt((a[1] - b[1]) * (a[1] - b[1]) + (a[2] - b[2]) * (a[2] - b[2]))

AD == [pose_history |-> ad_pose_history, activity_history |-> ad_activity_history]

\* pose_history[person_id] as calculate_speed leaves it: a first call creates
\* the empty list and stores nothing
SpeedHistory(ad, person_id, current_center, timestamp) ==
    IF person_id \notin DOMAIN ad.pose_history THEN <<>>
    ELSE RingAppend(ad.pose_history[person_id],
                    [position |-> current_center, timestamp |-> timestamp],
                    pose_history_length)

\* what calculate_speed returns, given the history it leaves; px per second
calculate_speed(known, history) ==
    IF ~known \/ Len(history) < 3 THEN <<0, 1>>
    ELSE LET pairs == RecentPairs(history, 5)
             speed == [k \in pairs |->
                        <<Norm(history[k].position, history[k - 1].position) * fps,
                          history[k].timestamp - history[k - 1].timestamp>>]
         IN  RatMean(pairs, speed)

\* height / width, 1.0 for a bbox without width
aspect_ratio(bbox) ==
    IF bbox[3] - bbox[1] > 0
    THEN Reduce(<<bbox[4] - bbox[2], bbox[3] - bbox[1]>>)
    ELSE <<1, 1>>

\* the speed-based classification
BaseActivity(speed, bbox) ==
    IF RatLT(speed, <<standing_movement_threshold, 1>>)
    THEN IF RatGT(aspect_ratio(bbox), <<2, 1>>) THEN "standing"
         ELSE IF RatLT(aspect_ratio(bbox), <<3, 2>>) THEN "sitting/crouching"
         ELSE "standing"
    ELSE IF RatLT(speed, <<speed_threshold_walking, 1>>) THEN "walking_slow"
    ELSE IF RatLT(speed, <<speed_threshold_running, 1>>) THEN "walking"
    ELSE "running"

\* ActivityDetector._refine_activity_classification
refine_activity_classification(history, activities, base_activity, bbox, speed) ==
    LET recent == LastN(history, 5)
        steps == 2..Len(recent)
        dist == [k \in steps |-> <<Norm(recent[k].position, recent[k - 1].position), 1>>]
        loitering ==
            /\ Len(history) >= 5
            /\ RatLT(RatMean(steps, dist), <<5, 1>>)
            /\ base_activity \in {"standing", "walking_slow"}
        unique == {LastN(activities, 10)[k] : k \in DOMAIN LastN(activities, 10)}
        erratic ==
            /\ Len(activities) >= 10
            /\ Cardinality(unique) >= 4
            /\ RatGT(speed, <<20, 1>>)
            /\ "running" \in unique
            /\ "standing" \in unique
        falling == RatLT(aspect_ratio(bbox), <<1, 1>>) /\ RatGT(speed, <<1, 1>>)
    IN  IF loitering THEN "loitering"
        ELSE IF erratic THEN "erratic_movement"
        ELSE IF falling THEN "potential_fall"
        ELSE base_activity

\* ActivityDetector.classify_activity, on the detector ad
BoxClassified(ad, person_id, bbox, timestamp) ==
    LET known == person_id \in DOMAIN ad.pose_history
        history == SpeedHistory(ad, person_id, BoxCenter(bbox), timestamp)
        speed == calculate_speed(known, history)
        activities == IF person_id \in DOMAIN ad.activity_history
                      THEN ad.activity_history[person_id] ELSE <<>>
        activity == refine_activity_classification(
                        history, activities, BaseActivity(speed, bbox), bbox, speed)
    IN  [pose_history |-> Put(ad.pose_history, person_id, history),
         activity_history |->
            IF Len(history) < 5 THEN ad.activity_history
            ELSE Put(ad.activity_history, person_id,
                     RingAppend(activities, activity, 20))]

\* what that call returns: "standing" during the warmup
BoxReturned(ad, person_id, bbox, timestamp) ==
    LET known == person_id \in DOMAIN ad.pose_history
        history == SpeedHistory(ad, person_id, BoxCenter(bbox), timestamp)
        speed == calculate_speed(known, history)
        activities == IF person_id \in DOMAIN ad.activity_history
                      THEN ad.activity_history[person_id] ELSE <<>>
    IN  IF Len(history) < 5 THEN "standing"
        ELSE refine_activity_classification(
                history, activities, BaseActivity(speed, bbox), bbox, speed)

----------------------------------------------------------------------------
(* PoseActivityDetector *)

pa_history_length == 10

PA == [pose_history |-> pa_pose_history, activity_history |-> pa_activity_history]

\* PoseActivityDetector.classify_activity, on the detector pa: the label is
\* returned and not stored
PoseClassified(pa, person_id, pose, timestamp) ==
    IF pose = <<>>
    THEN [pa EXCEPT !.activity_history =
                        IF person_id \in DOMAIN @ THEN @ ELSE Put(@, person_id, <<>>)]
    ELSE LET known == person_id \in DOMAIN pa.pose_history
         IN  [pose_history |->
                Put(pa.pose_history, person_id,
                    RingAppend(IF known THEN pa.pose_history[person_id] ELSE <<>>,
                               [keypoints |-> pose[1], timestamp |-> timestamp],
                               pa_history_length)),
              activity_history |->
                IF known THEN pa.activity_history
                ELSE Put(pa.activity_history, person_id, <<>>)]

pa_sitting_hip_angle_max == 110
sitting_knee_angle_max == 130
reading_head_tilt_min == 20
reading_head_tilt_max == 70
movement_threshold == 15

\* the hip velocity of the latest record against the one before, px per second
hip_velocity(history) ==
    LET curr == history[Len(history)]
        prev == history[Len(history) - 1]
    IN  IF /\ curr.keypoints.hip # 0
           /\ prev.keypoints.hip # 0
           /\ curr.timestamp - prev.timestamp > 0
        THEN Reduce(<<Abs(curr.keypoints.hip - prev.keypoints.hip) * fps,
                      curr.timestamp - prev.timestamp>>)
        ELSE <<0, 1>>

\* PoseActivityDetector.calculate_average_velocity for the hip, px per second
calculate_average_velocity(history, frames) ==
    IF Len(history) < 2 THEN <<0, 1>>
    ELSE LET pairs == {k \in RecentPairs(history, frames + 1) :
                          history[k].keypoints.hip # 0 /\ history[k - 1].keypoints.hip # 0}
             velocity ==
                [k \in pairs |->
                    <<Abs(history[k].keypoints.hip - history[k - 1].keypoints.hip) * fps,
                      history[k].timestamp - history[k - 1].timestamp>>]
         IN  RatMean(pairs, velocity)

\* the label PoseActivityDetector.classify_activity gives after the warmup
PoseActivity(history, keypoints) ==
    LET sitting == /\ keypoints.hip # 0
                   /\ keypoints.hip_angle < pa_sitting_hip_angle_max
                   /\ keypoints.knee_angle < sitting_knee_angle_max
        head_down == /\ reading_head_tilt_min <= keypoints.head_tilt
                     /\ keypoints.head_tilt <= reading_head_tilt_max
    IN  IF sitting
        THEN IF head_down THEN "reading" ELSE "sitting"
        ELSE IF RatLT(hip_velocity(history), <<movement_threshold, 1>>)
             THEN IF head_down THEN "reading" ELSE "standing"
             ELSE "loitering"

\* what that call returns: "standing" without a pose and during the warmup
PoseReturned(pa, person_id, pose, timestamp) ==
    IF pose = <<>> THEN "standing"
    ELSE LET history == PoseClassified(pa, person_id, pose, timestamp)
                            .pose_history[person_id]
         IN  IF Len(history) < 5 THEN "standing"
             ELSE PoseActivity(history, pose[1])

----------------------------------------------------------------------------
(* detect_activity_zones.main: the tracker, then the classifier, per frame *)

\* the zones whose polygon holds the centre of the bbox
PersonZones(bbox) == {z \in ZoneIds : bbox \in ZoneBoxes[z]}

\* the poses of a person standing upright, head up, at one of two places
UprightPoses ==
    {<<>>} \cup {<<kp>> : kp \in {k \in Keypoints :
                                    /\ k.hip \in {500, 520}
                                    /\ k.hip_angle = 170
                                    /\ k.knee_angle = 170
                                    /\ k.head_tilt = 0}}

\* for bbox, tracker_id in zip(detections.xyxy, detections.tracker_id), from
\* the i-th detection on; poses[i] is what detect_pose returns for it
RECURSIVE PersonsClassified(_, _, _, _, _, _)
PersonsClassified(pt, dets, ids, poses, timestamp, i) ==
    IF i > Len(dets) THEN pt
    ELSE PersonsClassified(
            IF PersonZones(dets[i].xyxy) # {}
            THEN TemporalClassified(pt, ids[i], poses[i], timestamp)
            ELSE pt,
            dets, ids, poses, timestamp, i + 1)

ActivityFrame ==
    /\ frame_count < MaxFrames
    /\ \E dets \in {d \in DetectionLists : Len(d) <= 1} : update_with_detections(dets)
    /\ \E poses \in [DOMAIN tracked_detections' -> UprightPoses] :
       \E pt \in {PersonsClassified(PT, tracked_detections', new_tracker_ids', poses,
                                    frame_count', 1)} :
          /\ pt_keypoint_history' = pt.keypoint_history
          /\ pt_activity_history' = pt.activity_history
    /\ UNCHANGED <<ad_pose_history, ad_activity_history, pa_pose_history,
                   pa_activity_history>>
    /\ UNCHANGED <<zone_vars, last_output_frame, compared>>
    /\ UNCHANGED returned

ActivityNext == ActivityFrame

SpecActivityZones == Init /\ [][ActivityNext]_vars

----------------------------------------------------------------------------
(* The classifiers called over and over for the same person *)

\* one person, upright at one place, or no pose found; each call of a detector
\* comes one frame after the last one it stored
RingPersons == {1}
RingPoses == {pose \in UprightPoses : pose = <<>> \/ pose[1].hip = 500}

NextTimestamp(histories, person_id) ==
    IF person_id \in DOMAIN histories /\ histories[person_id] # <<>>
    THEN histories[person_id][Len(histories[person_id])].timestamp + 1
    ELSE 1

TemporalClassify ==
    /\ \E person_id \in RingPersons, pose \in RingPoses :
          /\ NextTimestamp(pt_keypoint_history, person_id) <= MaxTimestamp
          /\ \E pt \in {TemporalClassified(PT, person_id, pose,
                                           NextTimestamp(pt_keypoint_history, person_id))} :
                /\ pt_keypoint_history' = pt.keypoint_history
                /\ pt_activity_history' = pt.activity_history
    /\ UNCHANGED <<ad_pose_history, ad_activity_history, pa_pose_history,
                   pa_activity_history>>
    /\ UNCHANGED <<tracker_vars, zone_vars, last_output_frame, compared>>
    /\ UNCHANGED returned

\* PoseTemporalDetector.cleanup_person
cleanup_person ==
    /\ \E person_id \in RingPersons :
          \E pt \in {PersonCleaned(PT, person_id)} :
                /\ pt_keypoint_history' = pt.keypoint_history
                /\ pt_activity_history' = pt.activity_history
    /\ UNCHANGED <<ad_pose_history, ad_activity_history, pa_pose_history,
                   pa_activity_history>>
    /\ UNCHANGED <<tracker_vars, zone_vars, last_output_frame, compared>>
    /\ UNCHANGED returned

BoxClassify ==
    /\ \E person_id \in RingPersons :
          /\ NextTimestamp(ad_pose_history, person_id) <= MaxTimestamp
          /\ \E ad \in {BoxClassified(AD, person_id, BoxA,
                                      NextTimestamp(ad_pose_history, person_id))} :
                /\ ad_pose_history' = ad.pose_history
                /\ ad_activity_history' = ad.activity_history
    /\ UNCHANGED <<pt_keypoint_history, pt_activity_history, pa_pose_history,
                   pa_activity_history>>
    /\ UNCHANGED <<tracker_vars, zone_vars, last_output_frame, compared>>
    /\ UNCHANGED returned

PoseClassify ==
    /\ \E person_id \in RingPersons, pose \in RingPoses :
          /\ NextTimestamp(pa_pose_history, person_id) <= MaxTimestamp
          /\ \E pa \in {PoseClassified(PA, person_id, pose,
                                       NextTimestamp(pa_pose_history, person_id))} :
                /\ pa_pose_history' = pa.pose_history
                /\ pa_activity_history' = pa.activity_history
    /\ UNCHANGED <<pt_keypoint_history, pt_activity_history, ad_pose_history,
                   ad_activity_history>>
    /\ UNCHANGED <<tracker_vars, zone_vars, last_output_frame, compared>>
    /\ UNCHANGED returned

RingsNext == TemporalClassify \/ cleanup_person \/ BoxClassify \/ PoseClassify

SpecRings == ZoneSpecInit /\ [][RingsNext]_vars

----------------------------------------------------------------------------
(* The labels classify_activity returns *)

MaxSamples == 6     \* records the first person's history comes to hold
OtherSamples == 1   \* records the second person's history comes to hold

LabelPersons == {1, 2}

\* a person upright and head up, the hips at one of two places one pixel apart
WarmupPoses ==
    {<<>>} \cup {<<kp>> : kp \in {k \in Keypoints :
                                    /\ k.hip \in {500, 501}
                                    /\ k.hip_angle = 170
                                    /\ k.knee_angle = 170
                                    /\ k.head_tilt = 0}}

\* at the first place, upright or seated (hips and knees bent to 90 degrees),
\* any head tilt
LabelPoses ==
    {<<>>} \cup {<<kp>> : kp \in {k \in Keypoints :
                                    /\ k.hip = 500
                                    /\ k.hip_angle \in {90, 170}
                                    /\ k.knee_angle = k.hip_angle}}

Samples(histories, person_id) ==
    IF person_id \in DOMAIN histories THEN Len(histories[person_id]) ELSE 0

\* the first four records of a history are of a person standing
PosesFor(samples) == IF samples < 4 THEN WarmupPoses ELSE LabelPoses

Capacity(person_id) == IF person_id = 1 THEN MaxSamples ELSE OtherSamples

\* label = activity_detector.classify_activity(tracker_id, frame, bbox, timestamp),
\* one frame after the person's latest record
TemporalCalled(person_id, pose) ==
    /\ \E timestamp \in {NextTimestamp(pt_keypoint_history, person_id)} :
       \E pt \in {TemporalClassified(PT, person_id, pose, timestamp)} :
          /\ pt_keypoint_history' = pt.keypoint_history
          /\ pt_activity_history' = pt.activity_history
          /\ returned' =
                <<[detector |-> "PoseTemporalDetector",
                   person_id |-> person_id,
                   pose |-> pose,
                   timestamp |-> timestamp,
                   samples |-> Samples(pt.keypoint_history, person_id),
                   label |-> TemporalReturned(PT, person_id, pose, timestamp)]>>
    /\ UNCHANGED <<ad_pose_history, ad_activity_history, pa_pose_history,
                   pa_activity_history>>
    /\ UNCHANGED <<tracker_vars, zone_vars, last_output_frame, compared>>

LabelTemporal ==
    \E person_id \in LabelPersons :
        /\ Samples(pt_keypoint_history, person_id) < Capacity(person_id)
        /\ \E pose \in PosesFor(Samples(pt_keypoint_history, person_id)) :
              TemporalCalled(person_id, pose)

LabelCleanup ==
    /\ \E person_id \in LabelPersons :
          \E pt \in {PersonCleaned(PT, person_id)} :
                /\ pt_keypoint_history' = pt.keypoint_history
                /\ pt_activity_history' = pt.activity_history
    /\ UNCHANGED <<ad_pose_history, ad_activity_history, pa_pose_history,
                   pa_activity_history, returned>>
    /\ UNCHANGED <<tracker_vars, zone_vars, last_output_frame, compared>>

TemporalNext == LabelTemporal \/ LabelCleanup

SpecTemporal == ZoneSpecInit /\ [][TemporalNext]_vars

\* the same call on a PoseActivityDetector
PoseCalled(person_id, pose) ==
    /\ \E timestamp \in {NextTimestamp(pa_pose_history, person_id)} :
       \E pa \in {PoseClassified(PA, person_id, pose, timestamp)} :
          /\ pa_pose_history' = pa.pose_history
          /\ pa_activity_history' = pa.activity_history
          /\ returned' =
                <<[detector |-> "PoseActivityDetector",
                   person_id |-> person_id,
                   pose |-> pose,
                   timestamp |-> timestamp,
                   samples |-> Samples(pa.pose_history, person_id),
                   label |-> PoseReturned(PA, person_id, pose, timestamp)]>>
    /\ UNCHANGED <<pt_keypoint_history, pt_activity_history, ad_pose_history,
                   ad_activity_history>>
    /\ UNCHANGED <<tracker_vars, zone_vars, last_output_frame, compared>>

\* One person seen until the rings are full and beyond, who stands and, from
\* the frame SeatedFrom on, may sit down and look down
SeatedFrom == 33    \* the first frame the person may be seated in

LatePoses ==
    {<<kp>> : kp \in {k \in Keypoints :
                        /\ k.hip = 500
                        /\ k.hip_angle = 90
                        /\ k.knee_angle = 90
                        /\ k.head_tilt \in {0, 45}}}

PosesAt(timestamp) == IF timestamp < SeatedFrom THEN RingPoses ELSE RingPoses \cup LatePoses

RingTemporal ==
    \E person_id \in RingPersons :
        /\ NextTimestamp(pt_keypoint_history, person_id) <= MaxTimestamp
        /\ \E pose \in PosesAt(NextTimestamp(pt_keypoint_history, person_id)) :
              TemporalCalled(person_id, pose)

LabelRingNext == RingTemporal \/ LabelCleanup

SpecLabelRing == ZoneSpecInit /\ [][LabelRingNext]_vars

\* One person standing, seen by both pose detectors
WarmupTemporal ==
    \E person_id \in RingPersons, pose \in WarmupPoses :
        /\ Samples(pt_keypoint_history, person_id) < MaxSamples
        /\ TemporalCalled(person_id, pose)

WarmupPose ==
    \E person_id \in RingPersons, pose \in WarmupPoses :
        /\ Samples(pa_pose_history, person_id) < MaxSamples
        /\ PoseCalled(person_id, pose)

WarmupNext == WarmupTemporal \/ WarmupPose

SpecWarmup == ZoneSpecInit /\ [][WarmupNext]_vars

----------------------------------------------------------------------------
(* Properties of the tracker *)

\* the ID_RESTORED_FROM_GHOST records of a log
Restored(log) == {k \in DOMAIN log : log[k].event = "ID_RESTORED_FROM_GHOST"}

\* the detections of the latest call that were looked up in the ghost buffer
Searched == {tracking_log[k].bbox_index + 1 :
                k \in {j \in DOMAIN tracking_log :
                          tracking_log[j].event = "GHOST_MATCHING_ATTEMPT"}}

\* C1: after every update_with_detections no ID output for the latest frame
\* (last_frame_active_ids) is at the same time a key of ghost_tracks.
C1_ActiveXorGhost ==
    last_frame_active_ids \cap GhostIds(ghost_tracks) = {}

\* the bbox with which ID g was output in the latest call
C2_LastBox(g) ==
    tracked_detections[CHOOSE j \in DOMAIN new_tracker_ids : new_tracker_ids[j] = g].xyxy

C2_Criteria(gbox, bbox) ==
    /\ RatGE(calculate_iou(GhostTrack(0, gbox, 0), bbox), ghost_iou_threshold)
    /\ calculate_distance(GhostTrack(0, gbox, 0), bbox) <= 2 * ghost_distance_threshold

C2_Score(gbox, bbox) ==
    MatchScore(calculate_iou(GhostTrack(0, gbox, 0), bbox),
               calculate_distance(GhostTrack(0, gbox, 0), bbox))

\* the last bboxes of the other ghosts the next call can match: the ghosts that
\* do not expire in it, and the other IDs it loses
C2_Rivals(g) ==
    {ghost_tracks[k].bbox :
        k \in {j \in DOMAIN ghost_tracks :
                  /\ ghost_tracks[j].tracker_id # g
                  /\ frame_count' - ghost_tracks[j].last_seen_frame <= ghost_buffer_frames}}
    \cup {active_tracks[h] :
            h \in {l \in last_frame_active_ids \ CurrentActiveIds(tracked_detections') :
                      l # g /\ l \in DOMAIN active_tracks}}

\* C2, for t = f - 1: ID g was output (once) in frame f - 1 and not in frame f;
\* a detection of frame f whose provisional ID was not output in frame f - 1
\* meets the IoU and distance thresholds against g's last bbox, g is in the
\* ghost buffer when it is matched (g is lost in frame f and no record of g
\* expires in it), no other ghost scores as high for the detection, and g was
\* not reclaimed earlier in frame f.  Then the
\* call outputs g for it, g is no ghost afterwards and ID_RESTORED_FROM_GHOST
\* is logged.
C2_Reacquired ==
    \A g \in last_frame_active_ids \ {NoTrack} : \A i \in DOMAIN tracked_detections' :
        ( /\ frame_count' = frame_count + 1
          /\ ghost_buffer_frames >= 1
          /\ g \notin CurrentActiveIds(tracked_detections')
          /\ \A k \in DOMAIN ghost_tracks :
                ghost_tracks[k].tracker_id = g
                => frame_count' - ghost_tracks[k].last_seen_frame <= ghost_buffer_frames
          /\ Cardinality({j \in DOMAIN new_tracker_ids : new_tracker_ids[j] = g}) = 1
          /\ tracked_detections'[i].tracker_id \notin last_frame_active_ids \cup {NoTrack}
          /\ C2_Criteria(C2_LastBox(g), tracked_detections'[i].xyxy)
          /\ \A rival \in C2_Rivals(g) :
                \/ ~C2_Criteria(rival, tracked_detections'[i].xyxy)
                \/ RatLT(C2_Score(rival, tracked_detections'[i].xyxy),
                         C2_Score(C2_LastBox(g), tracked_detections'[i].xyxy))
          /\ \A j \in 1..(i - 1) : new_tracker_ids'[j] # g )
        => /\ new_tracker_ids'[i] = g
           /\ g \notin GhostIds(ghost_tracks')
           /\ \E r \in Restored(tracking_log') :
                 /\ tracking_log'[r].bbox_index = i - 1
                 /\ tracking_log'[r].restored_id = g

C2_ReacquisitionRestores == [][C2_Reacquired]_vars

\* C3: a detection whose provisional ID is in ghost_tracks and whose bbox is far
\* from that ghost (the call logs SUSPICIOUS_REASSIGNMENT_DETECTED for it) is
\* not output with that provisional ID.
C3_SuspiciousOverridden ==
    \A k \in DOMAIN tracking_log :
        tracking_log[k].event = "SUSPICIOUS_REASSIGNMENT_DETECTED"
        => new_tracker_ids[tracking_log[k].bbox_index + 1] # tracking_log[k].bytetrack_id

\* C6: every ghost in the buffer is at most ghost_buffer_frames old ...
C6_AgeBound ==
    \A k \in DOMAIN ghost_tracks :
        frame_count - ghost_tracks[k].last_seen_frame <= ghost_buffer_frames

\* ... and a call in which a ghost is older than that drops it, restores no
\* detection to its ID, and a detection at exactly its position keeps its
\* provisional ID unless it is restored to another ghost.
C6_ExpiredNotMatched ==
    \A k \in DOMAIN ghost_tracks :
        frame_count' - ghost_tracks[k].last_seen_frame > ghost_buffer_frames
        => /\ ghost_tracks[k].tracker_id \notin GhostIds(ghost_tracks')
           /\ \A r \in Restored(tracking_log') :
                 tracking_log'[r].restored_id # ghost_tracks[k].tracker_id
           /\ \A i \in DOMAIN tracked_detections' :
                 tracked_detections'[i].xyxy = ghost_tracks[k].bbox
                 => \/ new_tracker_ids'[i] = tracked_detections'[i].tracker_id
                    \/ \E r \in Restored(tracking_log') :
                          /\ tracking_log'[r].bbox_index = i - 1
                          /\ tracking_log'[r].restored_id = new_tracker_ids'[i]
                          /\ new_tracker_ids'[i] # ghost_tracks[k].tracker_id

\* C6: ghost expiration: the age bound in every state, and no match of a ghost
\* aged ghost_buffer_frames + 1 in any call.
C6_GhostExpiration == []C6_AgeBound /\ [][C6_ExpiredNotMatched]_vars

\* C6 witness: a ghost expired at age ghost_buffer_frames + 1 in a call that had
\* a detection with another provisional ID at exactly its position, which kept
\* that ID, and nothing was restored.
C6_Witness ==
    \E e \in DOMAIN expired_ghosts : \E i \in DOMAIN tracked_detections :
        /\ frame_count - expired_ghosts[e].last_seen_frame = ghost_buffer_frames + 1
        /\ tracked_detections[i].xyxy = expired_ghosts[e].bbox
        /\ tracked_detections[i].tracker_id \notin {NoTrack, expired_ghosts[e].tracker_id}
        /\ i \in Searched
        /\ new_tracker_ids[i] = tracked_detections[i].tracker_id
        /\ Restored(tracking_log) = {}

C8_GhostReclaimedOnce ==
    \A j, k \in Restored(tracking_log) :
        tracking_log[j].restored_id = tracking_log[k].restored_id => j = k

\* C8 witness: two detections with the same bbox were both looked up in the
\* ghost buffer; the first was restored from a ghost, the second was not.
C8_Witness ==
    \E r \in Restored(tracking_log) : \E j \in Searched :
        /\ j > tracking_log[r].bbox_index + 1
        /\ tracked_detections[j].xyxy
              = tracked_detections[tracking_log[r].bbox_index + 1].xyxy
        /\ \A q \in Restored(tracking_log) : tracking_log[q].bbox_index # j - 1

\* C11: a detection with the same bbox and the same provisional ID in two
\* consecutive frames gets the same final ID in both, whatever else is
\* detected and whatever ghosts exist.
C11_SameBoxSameId ==
    (/\ frame_count >= 1
     /\ frame_count' = frame_count + 1
     /\ DistinctIds(tracked_detections)
     /\ DistinctIds(tracked_detections'))
    => \A i \in DOMAIN tracked_detections, j \in DOMAIN tracked_detections' :
          tracked_detections[i] = tracked_detections'[j]
          => new_tracker_ids[i] = new_tracker_ids'[j]

C11_IdenticalBoxStable == [][C11_SameBoxSameId]_vars

\* the detections of a frame that carry an ID
Assigned(dets) == SelectSeq(dets, LAMBDA det : det.tracker_id # NoTrack)

\* ghost_tracks as a call leaves it, the lost IDs promoted in the given order
GhostsAfter(dets, order) ==
    LET fc == frame_count + 1
        active1 == RecordActive(active_tracks, dets)
        ghosts2 == ExpireGhosts(PromoteLost(ghost_tracks, active1, order, fc), fc)
    IN  ProcessDetections([ghosts |-> ghosts2, active |-> active1, ids |-> <<>>,
                           used |-> {}, log |-> <<>>],
                          fc, last_frame_active_ids, dets, 1).ghosts

\* C12: a detection with the sentinel ID -1 is output with the sentinel, is
\* compared with no ghost and rewritten to none (its only log record is
\* ID_CONTINUED), and neither creates nor removes a ghost: the ghosts after
\* the call are those of the same call without the sentinel detections.
C12_SentinelUntouched ==
    frame_count' = frame_count + 1
    => /\ \A i \in DOMAIN tracked_detections' :
            tracked_detections'[i].tracker_id = NoTrack
            => /\ new_tracker_ids'[i] = NoTrack
               /\ \A k \in DOMAIN tracking_log' :
                     tracking_log'[k].bbox_index = i - 1
                     => /\ tracking_log'[k].event = "ID_CONTINUED"
                        /\ tracking_log'[k].tracker_id = NoTrack
       /\ NoTrack \notin GhostIds(ghost_tracks')
       /\ NoTrack \notin DOMAIN active_tracks'
       /\ \E order \in SetToSeqs(LostToPromote(
                                ghost_tracks,
                                RecordActive(active_tracks, Assigned(tracked_detections')),
                                last_frame_active_ids,
                                Assigned(tracked_detections'))) :
             ghost_tracks' = GhostsAfter(Assigned(tracked_detections'), order)

C12_SentinelPassThrough == [][C12_SentinelUntouched]_vars

\* C12 witness: a detection with the sentinel ID lies exactly on the bbox of a
\* ghost, is output with the sentinel, and the ghost is still there.
C12_Witness ==
    \E i \in DOMAIN tracked_detections, k \in DOMAIN ghost_tracks :
        /\ tracked_detections[i].tracker_id = NoTrack
        /\ tracked_detections[i].xyxy = ghost_tracks[k].bbox
        /\ ghost_tracks[k].last_seen_frame = frame_count - 1
        /\ new_tracker_ids[i] = NoTrack

\* C18: an ID last output in frame t is, by the end of the call for frame
\* t + ghost_buffer_frames + 1 and from then on, a key of neither ghost_tracks
\* nor active_tracks.
C18_RetiredIdFreed ==
    \A tid \in DOMAIN last_output_frame :
        frame_count >= last_output_frame[tid] + ghost_buffer_frames + 1
        => /\ tid \notin GhostIds(ghost_tracks)
           /\ tid \notin DOMAIN active_tracks

\* C18 witness: an ID is not output for ghost_buffer_frames + 1 frames, the
\* call of the last of these frames expires its ghost, and another ID is
\* output in that frame.
C18_Witness ==
    \E tid \in DOMAIN last_output_frame :
        /\ frame_count = last_output_frame[tid] + ghost_buffer_frames + 1
        /\ \E k \in DOMAIN expired_ghosts : expired_ghosts[k].tracker_id = tid
        /\ new_tracker_ids # <<>>
        /\ ghost_buffer_frames >= 2

----------------------------------------------------------------------------
(* Properties of the zone tracker *)

Pairs == {<<z, p>> \in ZoneIds \X PersonIds : z \in DOMAIN zone_entries}

\* the events of a pair, oldest first
EventsOf(z, p) ==
    SelectSeq(analytics_data, LAMBDA e : e.zone_id = z /\ e.person_id = p)

\* the time spent in the visit that the k-th event of the pair closes
VisitOf(events, k) == events[k].timestamp - events[k - 1].timestamp

RECURSIVE SumOver(_, _, _)
SumOver(S, f(_), acc) ==
    IF S = {} THEN acc
    ELSE LET k == CHOOSE x \in S : TRUE
         IN  SumOver(S \ {k}, f, acc + f(k))

ExitsOf(events) == {k \in DOMAIN events : events[k].event = "exit"}

Dwell(z, p) ==
    IF p \in DOMAIN zone_durations[z] THEN zone_durations[z][p] ELSE 0

\* C4: the events logged for a (zone, person) pair are entry, exit, entry, ...
\* in turn, the first an entry.
C4_EventsAlternate ==
    \A pair \in Pairs :
        LET events == EventsOf(pair[1], pair[2])
        IN  \A k \in DOMAIN events :
                events[k].event = (IF k % 2 = 1 THEN "entry" ELSE "exit")

\* C4 witness: a pair that entered, left and entered again.
C4_Witness ==
    \E pair \in Pairs :
        LET events == EventsOf(pair[1], pair[2])
        IN  /\ Len(events) >= 3
            /\ events[2].event = "exit"
            /\ events[3].event = "entry"

\* C5 as claimed: the total of a pair is the sum of the logged dwell of its exit
\* events (in hundredths of a second, here times 10 ms) plus, while the person
\* is in the zone, the time since the entry.
C5_DwellIncludesOngoing ==
    \A pair \in Pairs :
        LET z == pair[1]
            p == pair[2]
            events == EventsOf(z, p)
            logged(k) == 10 * events[k].duration_sec[1]
        IN  Dwell(z, p) =
                SumOver(ExitsOf(events), logged, 0)
                + (IF p \in zone_current[z] THEN clock - zone_entries[z][p] ELSE 0)

\* C5 as amended: the total of a pair is the sum, over its exit events, of the
\* time between the entry and the exit, the visit in progress not counted; the
\* dwell logged with an exit is that time rounded to hundredths of a second.
C5_DwellSumsClosedVisits ==
    \A pair \in Pairs :
        LET z == pair[1]
            p == pair[2]
            events == EventsOf(z, p)
            visit(k) == VisitOf(events, k)
        IN  /\ Dwell(z, p) = SumOver(ExitsOf(events), visit, 0)
            /\ \A k \in ExitsOf(events) :
                  events[k].duration_sec = <<Round2(visit(k))>>

\* C5 witness: a person back in a zone for some time after a visit whose
\* length is no whole number of hundredths.
C5_Witness ==
    \E pair \in Pairs :
        LET z == pair[1]
            p == pair[2]
            events == EventsOf(z, p)
        IN  /\ Len(events) = 3
            /\ VisitOf(events, 2) % 10 # 0
            /\ p \in zone_current[z]
            /\ clock > zone_entries[z][p]
            /\ Dwell(z, p) = VisitOf(events, 2)

----------------------------------------------------------------------------
(* Properties of the scenarios *)

\* C9 as claimed: in the brief-occlusion scenario the person is output with the
\* original ID 1 in frame 61 and exactly one ID_RESTORED_FROM_GHOST is logged
\* over the run.
C9_OriginalIdRestored ==
    frame_count = Occlusion.last
    => new_tracker_ids = <<1>> /\ id_restorations = 1

\* C9 as amended: no ID_RESTORED_FROM_GHOST is logged at any point of the run,
\* and in frame 61 the person is output with the fresh provisional ID 2 while
\* the ghost of ID 1 stays in the buffer.
C9_FreshIdKept ==
    /\ id_restorations = 0
    /\ frame_count = Occlusion.last
       => /\ new_tracker_ids = <<2>>
          /\ GhostIds(ghost_tracks) = {1}
          /\ \E k \in DOMAIN tracking_log : tracking_log[k].event = "NEW_ID_ASSIGNED"

\* C9 witness: frame 61 is processed, with the ghost of frame 39 in the buffer
\* at a centre distance of at most ghost_distance_threshold.
C9_Witness ==
    /\ frame_count = Occlusion.last
    /\ tracked_detections = <<[xyxy |-> Occlusion.back, tracker_id |-> 2]>>
    /\ \E k \in DOMAIN ghost_tracks :
          /\ ghost_tracks[k].last_seen_frame = 39
          /\ calculate_distance(ghost_tracks[k], Occlusion.back)
                <= 2 * ghost_distance_threshold

\* C10 as claimed: once the base tracker has swapped the two IDs, the next call
\* outputs both original IDs again and two ID_RESTORED_FROM_GHOST records are
\* in the log.
C10_SwapUndone ==
    (/\ frame_count >= 1
     /\ frame_count' = frame_count + 1
     /\ CrossIds(tracked_detections) = <<2, 1>>)
    => new_tracker_ids' = <<1, 2>> /\ id_restorations' = 2

C10_SwapReverted == [][C10_SwapUndone]_vars

\* C10 as amended: the call outputs the provisional IDs unchanged, swapped or
\* not; no ghost exists, nothing is flagged as suspicious and no
\* ID_RESTORED_FROM_GHOST is logged.
C10_SwapPassedThrough ==
    /\ ghost_tracks = <<>>
    /\ id_restorations = 0
    /\ frame_count >= 1 => new_tracker_ids = CrossIds(tracked_detections)
    /\ \A k \in DOMAIN tracking_log :
          tracking_log[k].event \in (IF frame_count = 1
                                     THEN {"GHOST_MATCHING_ATTEMPT", "NEW_ID_ASSIGNED"}
                                     ELSE {"ID_CONTINUED"})

\* C10 witness: the frame after the swap, the two people far apart, the swapped
\* IDs output.
C10_Witness ==
    /\ frame_count >= 3
    /\ CrossIds(tracked_detections) = <<2, 1>>
    /\ new_tracker_ids = <<2, 1>>
    /\ tracked_detections[1].xyxy = BoxAt(100)
    /\ tracked_detections[2].xyxy = BoxAt(300)

----------------------------------------------------------------------------
(* Properties of the zone tracker over time *)

\* C13: the total of a (zone, person) pair never decreases from one call of
\* update_zone_tracking to the next, and a key of zone_durations, once there,
\* stays.
C13_DwellKept ==
    \A z \in DOMAIN zone_durations :
        /\ z \in DOMAIN zone_durations'
        /\ \A p \in DOMAIN zone_durations[z] :
              /\ p \in DOMAIN zone_durations'[z]
              /\ zone_durations'[z][p] >= zone_durations[z][p]

C14_DwellInVideoTime ==
    \A pair \in Pairs :
        LET events == EventsOf(pair[1], pair[2])
        IN  \A k \in ExitsOf(events) :
                LET video == 100 * (events[k].frame - events[k - 1].frame)
                    logged == fps * events[k].duration_sec[1]
                IN  /\ logged - video <= 100
                    /\ video - logged <= 100

\* the states a call of update_zone_tracking can leave, from zt
ZoneUpdates(zt, zone_id, person_ids_in_zone, current_time) ==
    ZoneUpdatesAt(zt, zone_id, person_ids_in_zone, current_time, zt_frame_count)

\* C15: a second call of update_zone_tracking with the same zone and the same
\* IDs, at the same time or later, emits no event and leaves analytics_data,
\* zone_current and zone_durations as the first call left them.
C15_RepeatedCallSilent ==
    \A zone_id \in ZoneIds, person_ids_in_zone \in SUBSET PersonIds :
        \A once \in ZoneUpdates(ZT, zone_id, person_ids_in_zone, clock) :
            \A later \in {0} \cup ClockSteps :
                \A twice \in ZoneUpdates(once, zone_id, person_ids_in_zone, clock + later) :
                    /\ twice.analytics_data = once.analytics_data
                    /\ twice.zone_current = once.zone_current
                    /\ twice.zone_durations = once.zone_durations

\* C15 witness: people are in a zone and have left it before, so that a first
\* call with another set of IDs logs both an entry and an exit.
C15_Witness ==
    \E zone_id \in ZoneIds \cap DOMAIN zone_current :
        \E person_ids_in_zone \in SUBSET PersonIds :
            /\ new_entries(ZT, zone_id, person_ids_in_zone) # {}
            /\ exits_of(ZT, zone_id, person_ids_in_zone) # {}
            /\ clock > 0
            /\ \A once \in ZoneUpdates(ZT, zone_id, person_ids_in_zone, clock) :
                  /\ Len(once.analytics_data) = Len(analytics_data) + 2
                  /\ ZoneUpdates(once, zone_id, person_ids_in_zone, clock) = {once}

\* the state of one zone
ZoneState(zt, z) ==
    <<zt.zone_current[z], zt.zone_entries[z], zt.zone_exits[z], zt.zone_durations[z]>>

\* C16: a call of update_zone_tracking for one zone leaves zone_current,
\* zone_entries, zone_exits and zone_durations of every other zone as they
\* were and appends only events of its own zone.
C16_OtherZonesUntouched ==
    \E zone_id \in ZoneIds :
        /\ \A other \in DOMAIN zone_current \ {zone_id} :
              /\ other \in DOMAIN zone_current'
              /\ ZoneState(ZT', other) = ZoneState(ZT, other)
        /\ DOMAIN zone_current' \subseteq DOMAIN zone_current \cup {zone_id}
        /\ Len(analytics_data') >= Len(analytics_data)
        /\ SubSeq(analytics_data', 1, Len(analytics_data)) = analytics_data
        /\ \A k \in (Len(analytics_data) + 1)..Len(analytics_data') :
              analytics_data'[k].zone_id = zone_id

C16_ZonesIndependent == [][C16_OtherZonesUntouched]_vars

\* C16 witness: one person is in two zones at once, entered at different
\* times, each zone with its own entry event.
C16_Witness ==
    \E p \in PersonIds, z1, z2 \in ZoneIds \cap DOMAIN zone_current :
        /\ z1 # z2
        /\ p \in zone_current[z1] \cap zone_current[z2]
        /\ zone_entries[z1][p] < zone_entries[z2][p]
        /\ Len(EventsOf(z1, p)) = 1
        /\ Len(EventsOf(z2, p)) = 1

----------------------------------------------------------------------------
(* Properties of the per-frame pipeline *)

OutputIds == {new_tracker_ids[i] : i \in DOMAIN new_tracker_ids}

\* C17: after every frame of the pipeline each ID in a zone's present set
\* (zone_current) is an ID the tracker output for that frame or the ID of a
\* ghost still in the buffer, and the sentinel -1 is in no present set.
C17_PresentIsTracked ==
    \A z \in DOMAIN zone_current :
        /\ zone_current[z] \subseteq OutputIds \cup GhostIds(ghost_tracks)
        /\ NoTrack \notin zone_current[z]

\* C17 witness: a frame in which one detection inside a zone carries the
\* sentinel and another, inside the same zone, a restored ID, while an ID
\* present in the frame before has left the zone's present set.
C17_Witness ==
    /\ frame_count = MaxFrames
    /\ \E i, j \in DOMAIN tracked_detections :
          /\ new_tracker_ids[i] = NoTrack
          /\ tracked_detections[i].xyxy \in ZoneBoxes[0]
          /\ tracked_detections[j].xyxy \in ZoneBoxes[0]
          /\ new_tracker_ids[j] # tracked_detections[j].tracker_id
          /\ zone_current[0] = {new_tracker_ids[j]}
    /\ \E k \in DOMAIN analytics_data :
          /\ analytics_data[k].event = "exit"
          /\ analytics_data[k].zone_id = 0

----------------------------------------------------------------------------
(* Properties of the classifiers *)

\* C19: the TrackIds that hold a pose history or a label history in the
\* classifier are IDs the tracker holds: output in the latest frame, keys of
\* active_tracks, or ghosts.
C19_HistoryOfTrackedOnly ==
    ((DOMAIN pt_keypoint_history \cup DOMAIN pt_activity_history) \ {NoTrack})
        \subseteq (last_frame_active_ids \cup DOMAIN active_tracks
                   \cup GhostIds(ghost_tracks))

\* the lists of a mapping are no longer than n
Within(histories, n) == \A p \in DOMAIN histories : Len(histories[p]) <= n

\* C20: no per-track history exceeds its capacity: 30 poses and 30 labels in
\* PoseTemporalDetector, 15 positions and 20 labels in ActivityDetector, 10
\* poses in PoseActivityDetector.
C20_RingsWithinCapacity ==
    /\ Within(pt_keypoint_history, history_length)
    /\ Within(pt_activity_history, 30)
    /\ Within(ad_pose_history, pose_history_length)
    /\ Within(ad_activity_history, 20)
    /\ Within(pa_pose_history, pa_history_length)

\* a list that is full and has lost its first records
FullAndShifted(histories, n) ==
    \E p \in DOMAIN histories :
        /\ Len(histories[p]) = n
        /\ histories[p][1].timestamp > 1

\* C20 witness: every pose ring is full and has dropped records, and each
\* label list has been appended to when it held its full number of labels.
C20_Witness ==
    /\ FullAndShifted(pt_keypoint_history, history_length)
    /\ FullAndShifted(ad_pose_history, pose_history_length)
    /\ FullAndShifted(pa_pose_history, pa_history_length)
    /\ \E p \in DOMAIN pt_activity_history :
          /\ Len(pt_activity_history[p]) = 30
          /\ pt_keypoint_history[p][Len(pt_keypoint_history[p])].timestamp >= 35
    /\ \E p \in DOMAIN ad_activity_history :
          /\ Len(ad_activity_history[p]) = 20
          /\ ad_pose_history[p][Len(ad_pose_history[p])].timestamp >= 25

----------------------------------------------------------------------------
(* Properties of the labels *)

\* C21: a call of classify_activity without a pose returns "no_pose"; a call
\* with a pose returns "initializing" while the person's pose history, the
\* record of the call included, holds fewer than 5 records, and a label other
\* than those two from the fifth record on.
C21_WarmupLabels ==
    returned # <<>> =>
        LET r == returned[1]
        IN  /\ r.pose = <<>> => r.label = "no_pose"
            /\ r.pose # <<>> /\ r.samples < 5 => r.label = "initializing"
            /\ r.pose # <<>> /\ r.samples >= 5
                    => r.label \notin {"initializing", "no_pose"}

\* C21, amended: that holds of PoseTemporalDetector.classify_activity;
\* PoseActivityDetector.classify_activity returns "standing" without a pose
\* and while the history, the record of the call included, holds fewer than 5
\* records, and never "initializing" or "no_pose".
C21_WarmupLabelsByDetector ==
    returned # <<>> =>
        LET r == returned[1]
        IN  IF r.detector = "PoseTemporalDetector"
            THEN /\ r.pose = <<>> => r.label = "no_pose"
                 /\ r.pose # <<>> /\ r.samples < 5 => r.label = "initializing"
                 /\ r.pose # <<>> /\ r.samples >= 5
                        => r.label \notin {"initializing", "no_pose"}
            ELSE /\ r.pose = <<>> \/ r.samples < 5 => r.label = "standing"
                 /\ r.label \notin {"initializing", "no_pose"}

\* the fifth record of a person has just been classified by the one detector
\* while the other is still in its warmup
C21_Witness ==
    /\ returned # <<>>
    /\ returned[1].detector = "PoseTemporalDetector"
    /\ returned[1].samples = 5
    /\ returned[1].label = "standing"
    /\ Samples(pa_pose_history, 1) \in 1..4

\* the labels stored for a person, none without the key
LabelsOf(histories, person_id) ==
    IF person_id \in DOMAIN histories THEN histories[person_id] ELSE <<>>

\* C22: every label a classify_activity call returns, "initializing" and
\* "no_pose" included, is appended to the person's label ring of capacity 30:
\* after the call the ring is the ring of before with the returned label
\* appended and cut to its last 30 labels.
C22_ReturnedLabelStored ==
    [][returned' # returned =>
        LET r == returned'[1]
        IN  LabelsOf(pt_activity_history', r.person_id)
                = LastN(Append(LabelsOf(pt_activity_history, r.person_id), r.label), 30)]_vars

\* C22, amended: that holds of the labels other than "initializing" and
\* "no_pose"; a call that returns one of these two leaves the label ring as
\* it was.
C22_ClassifiedLabelStored ==
    [][returned' # returned =>
        LET r == returned'[1]
            before == LabelsOf(pt_activity_history, r.person_id)
        IN  LabelsOf(pt_activity_history', r.person_id)
                = IF r.label \in {"initializing", "no_pose"} THEN before
                  ELSE LastN(Append(before, r.label), 30)]_vars

\* the ring is full, has dropped its oldest label, and ends with labels that
\* differ
C22_Witness ==
    /\ returned # <<>>
    /\ returned[1].timestamp = MaxTimestamp
    /\ returned[1].label = "sitting"
    /\ Samples(pt_activity_history, 1) = 30
    /\ pt_activity_history[1][29] = "reading"
    /\ pt_activity_history[1][30] = "sitting"

\* the windows get_dominant_activity is asked for; detect_activity_zones asks
\* for 10
DominantWindows == {1, 2, 4, 10}

\* how often a label occurs in a list, where it occurs last and where first
CountOf(labels, a) == Cardinality({k \in DOMAIN labels : labels[k] = a})
LatestOf(labels, a) ==
    CHOOSE k \in DOMAIN labels : labels[k] = a /\ \A j \in (k + 1)..Len(labels) : labels[j] # a
EarliestOf(labels, a) ==
    CHOOSE k \in DOMAIN labels : labels[k] = a /\ \A j \in 1..(k - 1) : labels[j] # a

\* C23: get_dominant_activity(id, window) returns "unknown" for an ID without
\* stored labels, and else a label with the highest count among the last
\* window labels of the ring; among several labels with that count it returns
\* the one that occurs latest.
C23_DominantLatestOnTie ==
    \A person_id \in LabelPersons, window \in DominantWindows :
        LET dominant == get_dominant_activity(PT, person_id, window)
        IN  IF Samples(pt_activity_history, person_id) = 0
            THEN dominant = "unknown"
            ELSE LET recent == LastN(pt_activity_history[person_id], window)
                 IN  /\ \E k \in DOMAIN recent : recent[k] = dominant
                     /\ \A k \in DOMAIN recent :
                           \/ CountOf(recent, recent[k]) < CountOf(recent, dominant)
                           \/ /\ CountOf(recent, recent[k]) = CountOf(recent, dominant)
                              /\ LatestOf(recent, recent[k]) <= LatestOf(recent, dominant)

\* C23, amended: among several labels with the highest count it returns the
\* one whose first occurrence in the window is the earliest.
C23_DominantEarliestOnTie ==
    \A person_id \in LabelPersons, window \in DominantWindows :
        LET dominant == get_dominant_activity(PT, person_id, window)
        IN  IF Samples(pt_activity_history, person_id) = 0
            THEN dominant = "unknown"
            ELSE LET recent == LastN(pt_activity_history[person_id], window)
                 IN  /\ \E k \in DOMAIN recent : recent[k] = dominant
                     /\ \A k \in DOMAIN recent :
                           \/ CountOf(recent, recent[k]) < CountOf(recent, dominant)
                           \/ /\ CountOf(recent, recent[k]) = CountOf(recent, dominant)
                              /\ EarliestOf(recent, dominant) <= EarliestOf(recent, recent[k])

\* the last four labels are two pairs, and the label that came first, not
\* the latest one, is the dominant one of the window of 4
C23_Witness ==
    /\ Samples(pt_activity_history, 1) = 30
    /\ LastN(pt_activity_history[1], 4) = <<"sitting", "reading", "reading", "sitting">>
    /\ get_dominant_activity(PT, 1, 4) = "sitting"
    /\ get_dominant_activity(PT, 1, 10) = "standing"

\* the closed set of activity labels
ActivityLabel ==
    {"standing", "sitting", "reading", "reading_standing", "walking", "loitering",
     "no_pose", "initializing", "unknown"}

\* the label of the first matching rule of the decision tree
FirstRule(sitting, head_tilt, velocity) ==
    IF sitting /\ head_tilt >= 20 THEN "reading"
    ELSE IF sitting THEN "sitting"
    ELSE IF RatLT(velocity, <<standing_speed_threshold, 1>>) /\ head_tilt >= 30
         THEN "reading_standing"
    ELSE IF RatLT(velocity, <<standing_speed_threshold, 1>>) THEN "standing"
    ELSE "walking"

\* C24: past the warmup classify_activity returns the label of the first
\* matching rule: seated with head tilt >= 20 "reading", seated otherwise
\* "sitting", not seated and slower than standing_speed_threshold with head
\* tilt >= 30 "reading_standing", not seated and slow otherwise "standing",
\* else "walking"; and every label is one of the closed set.
C24_FirstRuleWins ==
    returned # <<>> =>
        LET r == returned[1]
        IN  /\ r.label \in ActivityLabel
            /\ /\ r.pose # <<>>
               /\ r.samples >= 5
               /\ Samples(pt_keypoint_history, r.person_id) = r.samples
               => r.label = FirstRule(is_sitting(r.pose[1]), r.pose[1].head_tilt,
                                      calculate_velocity(pt_keypoint_history[r.person_id]))

\* the rule with both head tilt tests as "more than 30 degrees"
StrictRule(sitting, head_tilt, velocity) ==
    IF sitting /\ head_tilt > 30 THEN "reading"
    ELSE IF sitting THEN "sitting"
    ELSE IF RatLT(velocity, <<25, 1>>) /\ head_tilt > 30 THEN "reading_standing"
    ELSE IF RatLT(velocity, <<25, 1>>) THEN "standing"
    ELSE "walking"

\* C24, amended: the head tilt must exceed 30 degrees in both reading rules:
\* seated with head tilt > 30 "reading", seated otherwise "sitting", not
\* seated and slower than 25 px/s with head tilt > 30 "reading_standing", not
\* seated and slow otherwise "standing", else "walking".
C24_StrictTiltWins ==
    returned # <<>> =>
        LET r == returned[1]
        IN  /\ r.label \in ActivityLabel
            /\ /\ r.pose # <<>>
               /\ r.samples >= 5
               /\ Samples(pt_keypoint_history, r.person_id) = r.samples
               => r.label = StrictRule(is_sitting(r.pose[1]), r.pose[1].head_tilt,
                                       calculate_velocity(pt_keypoint_history[r.person_id]))

\* a person who walked, then stood with the head tilted by exactly 30 degrees
C24_Witness ==
    /\ returned # <<>>
    /\ returned[1].samples = 6
    /\ returned[1].pose # <<>>
    /\ returned[1].pose[1].head_tilt = 30
    /\ returned[1].pose[1].hip_angle = 170
    /\ returned[1].label = "standing"
    /\ Samples(pt_activity_history, 1) = 2
    /\ pt_activity_history[1][1] = "walking"

\* a person's ring in a dict: <<>> without the key, else <<the ring>>
RingOf(histories, person_id) ==
    IF person_id \in DOMAIN histories THEN <<histories[person_id]>> ELSE <<>>

\* the persons whose keypoint or label ring a step changes, creates or removes
Touched ==
    {p \in LabelPersons :
        \/ RingOf(pt_keypoint_history, p) # RingOf(pt_keypoint_history', p)
        \/ RingOf(pt_activity_history, p) # RingOf(pt_activity_history', p)}

\* the detector with the rings of one person only
Alone(pt, person_id) ==
    [keypoint_history |->
        [p \in DOMAIN pt.keypoint_history \cap {person_id} |-> pt.keypoint_history[p]],
     activity_history |->
        [p \in DOMAIN pt.activity_history \cap {person_id} |-> pt.activity_history[p]]]

\* the step is the classify_activity call that returned' describes: it changes
\* the rings of no other ID, and its label and the rings it leaves for the ID
\* are those of the same call on a detector that holds the ID's rings only
CalledAlone ==
    /\ returned' # <<>>
    /\ LET r == returned'[1]
           alone == Alone(PT, r.person_id)
           after == TemporalClassified(alone, r.person_id, r.pose, r.timestamp)
       IN  /\ Touched \subseteq {r.person_id}
           /\ RingOf(pt_keypoint_history', r.person_id)
                   = RingOf(after.keypoint_history, r.person_id)
           /\ RingOf(pt_activity_history', r.person_id)
                   = RingOf(after.activity_history, r.person_id)
           /\ r.label = TemporalReturned(alone, r.person_id, r.pose, r.timestamp)

\* C25: the classifier is per track.  A classify_activity call for an ID
\* neither reads nor changes the rings of another ID; cleanup_person removes
\* both rings of its ID and changes no other ring.
C25_PerTrack ==
    [][/\ Cardinality(Touched) <= 1
       /\ returned' # returned => CalledAlone
       /\ returned' = returned =>
            \/ CalledAlone
            \/ \A p \in Touched : /\ p \notin DOMAIN pt_keypoint_history'
                                  /\ p \notin DOMAIN pt_activity_history']_vars

\* the second person was classified while the first had a full history, and
\* was then cleaned up; the first person's rings are still there
C25_Witness ==
    /\ returned # <<>>
    /\ returned[1].person_id = 2
    /\ returned[1].pose # <<>>
    /\ 2 \notin DOMAIN pt_keypoint_history
    /\ 2 \notin DOMAIN pt_activity_history
    /\ Samples(pt_keypoint_history, 1) = MaxSamples
    /\ Samples(pt_activity_history, 1) >= 2

----------------------------------------------------------------------------
(* The ZoneEvent log read back *)

\* the summary get_zone_analytics returns on the tracker zt, the mean of the
\* durations as the fraction <<sum, number>>
SummaryOf(zt, zone_id) ==
    LET zt0 == initialize_zone(zt, zone_id)
        durations == zt0.zone_durations[zone_id]
    IN  [zone_id |-> zone_id,
         current_occupancy |-> Cardinality(zt0.zone_current[zone_id]),
         current_people |-> zt0.zone_current[zone_id],
         total_entries |-> Cardinality(DOMAIN zt0.zone_entries[zone_id]),
         total_exits |-> Cardinality(DOMAIN zt0.zone_exits[zone_id]),
         average_duration |->
            IF DOMAIN durations = {} THEN <<0, 1>>
            ELSE Reduce(<<SumOver(DOMAIN durations, LAMBDA q : durations[q], 0),
                          Cardinality(DOMAIN durations)>>),
         durations_by_person |-> durations]

\* a ZoneTracker right after construction
FreshZones ==
    [zone_entries |-> <<>>, zone_exits |-> <<>>, zone_durations |-> <<>>,
     zone_current |-> <<>>, analytics_data |-> <<>>]

\* a fresh ZoneTracker fed the first k events of a log, one
\* update_zone_tracking call per event with the zone's people after the event;
\* times[k] is what datetime.now() gives in the k-th call
RECURSIVE ReplayedZones(_, _, _)
ReplayedZones(log, k, times) ==
    IF k = 0 THEN FreshZones
    ELSE LET zt == ReplayedZones(log, k - 1, times)
             e == log[k]
             present == initialize_zone(zt, e.zone_id).zone_current[e.zone_id]
             person_ids_in_zone ==
                IF e.event = "entry" THEN present \cup {e.person_id}
                ELSE present \ {e.person_id}
         IN  ZoneUpdated(zt, e.zone_id, person_ids_in_zone,
                         IF e.person_id \in person_ids_in_zone \ present
                         THEN <<e.person_id>> ELSE <<>>,
                         IF e.person_id \in present \ person_ids_in_zone
                         THEN <<e.person_id>> ELSE <<>>,
                         times[k], e.frame)

\* the time the replay takes per event: none, or a clock step
ReplaySteps == {0} \cup ClockSteps

\* C27: the ZoneEvent log round-trips.  A fresh zone tracker fed the events of
\* analytics_data in order, however fast, ends with the zone summary the
\* run's tracker gives for every zone: occupancy, people, entries, exits,
\* average duration and durations by person.
C27_LogRoundTrips ==
    \A step \in ReplaySteps, zone_id \in ZoneIds :
        LET times == [k \in DOMAIN analytics_data |-> k * step]
            again == ReplayedZones(analytics_data, Len(analytics_data), times)
        IN  SummaryOf(again, zone_id) = SummaryOf(ZT, zone_id)

----------------------------------------------------------------------------
(* The records of one update_with_detections call *)

EventTags == {"ID_CONTINUED", "SUSPICIOUS_REASSIGNMENT_DETECTED",
              "GHOST_MATCHING_ATTEMPT", "ID_RESTORED_FROM_GHOST", "NEW_ID_ASSIGNED"}

\* the tags of the records that say which ID a detection got
ClosingTags == {"ID_CONTINUED", "ID_RESTORED_FROM_GHOST", "NEW_ID_ASSIGNED"}

\* the places in the log of the records about detection i
RecordsOf(log, i) == {k \in DOMAIN log : log[k].bbox_index = i - 1}

Tagged(log, i, tag) == {k \in RecordsOf(log, i) : log[k].event = tag}

\* the provisional ID a record carries: ID_CONTINUED names it tracker_id
ProvisionalId(rec) ==
    IF rec.event = "ID_CONTINUED" THEN rec.tracker_id ELSE rec.bytetrack_id

\* the final ID a closing record tells
FinalId(rec) ==
    IF rec.event = "ID_RESTORED_FROM_GHOST" THEN rec.restored_id ELSE ProvisionalId(rec)

\* C28: a call adds exactly one record per detection of the base tracker; the
\* record has one of the five tags and carries the provisional and the final ID.
C28_OneRecordPerDetection ==
    /\ Len(tracking_log) = Len(tracked_detections)
    /\ \A i \in DOMAIN tracked_detections :
          /\ Cardinality(RecordsOf(tracking_log, i)) = 1
          /\ \A k \in RecordsOf(tracking_log, i) :
                /\ tracking_log[k].event \in EventTags
                /\ ProvisionalId(tracking_log[k]) = tracked_detections[i].tracker_id
                /\ tracking_log[k].event \in ClosingTags
                /\ FinalId(tracking_log[k]) = new_tracker_ids[i]

\* C28, amended: a call adds, per detection and in the order of the detections,
\* one to three records with tags of the five, each carrying the provisional
\* ID: exactly one closing record, the last (ID_CONTINUED, or NEW_ID_ASSIGNED
\* with the provisional ID final, or ID_RESTORED_FROM_GHOST with the final ID as
\* restored_id); before it one GHOST_MATCHING_ATTEMPT unless the ID continued;
\* and before that one SUSPICIOUS_REASSIGNMENT_DETECTED when the detection was
\* flagged.
C28_OneClosingRecordPerDetection ==
    /\ \A k \in DOMAIN tracking_log :
          /\ tracking_log[k].event \in EventTags
          /\ tracking_log[k].frame = frame_count
          /\ tracking_log[k].bbox_index + 1 \in DOMAIN tracked_detections
          /\ k > 1 => tracking_log[k - 1].bbox_index <= tracking_log[k].bbox_index
    /\ \A i \in DOMAIN tracked_detections :
          LET recs == RecordsOf(tracking_log, i)
              closing == {k \in recs : tracking_log[k].event \in ClosingTags}
              attempts == Tagged(tracking_log, i, "GHOST_MATCHING_ATTEMPT")
              flags == Tagged(tracking_log, i, "SUSPICIOUS_REASSIGNMENT_DETECTED")
          IN  /\ Cardinality(closing) = 1
              /\ \A c \in closing :
                    /\ \A k \in recs : k <= c
                    /\ FinalId(tracking_log[c]) = new_tracker_ids[i]
                    /\ Cardinality(attempts)
                          = (IF tracking_log[c].event = "ID_CONTINUED" THEN 0 ELSE 1)
              /\ \A k \in recs :
                    ProvisionalId(tracking_log[k]) = tracked_detections[i].tracker_id
              /\ Cardinality(flags) <= 1
              /\ \A f \in flags : \A a \in attempts :
                    f < a /\ tracking_log[a].was_suspicious
              /\ flags = {} => \A a \in attempts : ~tracking_log[a].was_suspicious

\* a frame of two detections: the first keeps its ID with one record, the
\* second was flagged and got a ghost's ID with three records
C28_Witness ==
    /\ Len(tracked_detections) = 2
    /\ Len(tracking_log) = 4
    /\ tracking_log[1].event = "ID_CONTINUED"
    /\ tracking_log[2].event = "SUSPICIOUS_REASSIGNMENT_DETECTED"
    /\ tracking_log[3].event = "GHOST_MATCHING_ATTEMPT"
    /\ tracking_log[4].event = "ID_RESTORED_FROM_GHOST"
    /\ tracking_log[4].restored_id # tracking_log[4].bytetrack_id

----------------------------------------------------------------------------
(* Construction with any configuration *)

\* the values a caller may pass for the three ghost settings, negative ones too
BufferChoices == {-1, 1}

IouChoices == {<<-3, 10>>, <<3, 10>>}

DistanceChoices == {-150, 150}

\* EnhancedTracker.__init__ stores its arguments as they come
ConfigInit ==
    /\ ghost_buffer_frames \in BufferChoices
    /\ ghost_iou_threshold \in IouChoices
    /\ ghost_distance_threshold \in DistanceChoices
    /\ TrackerInit
    /\ ZoneInit
    /\ ClassifierInit

SpecConfig == ConfigInit /\ [][Next]_vars

InvalidConfig ==
    \/ ghost_buffer_frames < 0
    \/ ghost_iou_threshold[1] < 0
    \/ ghost_distance_threshold < 0

\* C29: a tracker constructed with a negative ghost_iou_threshold,
\* ghost_distance_threshold or ghost_buffer_frames never processes a frame.
C29_InvalidConfigRejected == InvalidConfig => frame_count = 0

----------------------------------------------------------------------------
(* GhostTrack.calculate_iou on a grid *)

GridMax == 2        \* bbox corners lie on the grid 0..GridMax

\* the bboxes of the grid, empty ones (a line or a point) included
GridBoxes ==
    {b \in (0..GridMax) \X (0..GridMax) \X (0..GridMax) \X (0..GridMax) :
        b[1] <= b[3] /\ b[2] <= b[4]}

\* a ghost of box a is compared with box b, once in a run
Compare ==
    /\ compared = <<>>
    /\ \E a, b \in GridBoxes :
          LET ghost == GhostTrack(1, a, 0)
          IN  compared' = <<[ghost |-> ghost, bbox |-> b,
                             iou |-> calculate_iou(ghost, b)]>>
    /\ UNCHANGED <<tracker_vars, zone_vars, last_output_frame, classifier_vars>>

CompareNext == Compare

SpecIou == ZoneSpecInit /\ [][CompareNext]_vars

\* the unit cells a bbox covers
CellsOf(bbox) == (bbox[1]..(bbox[3] - 1)) \X (bbox[2]..(bbox[4] - 1))

\* C30: calculate_iou gives the same for ghost A against B as for ghost B
\* against A, gives 1 for A against itself when A has positive area, and gives
\* 0 when the rectangles are disjoint or the union is 0; wherever the union
\* is not 0 it is the cells of both over the cells of either.
C30_IouSymmetric ==
    compared # <<>> =>
        LET a == compared[1].ghost.bbox
            b == compared[1].bbox
            iou == compared[1].iou
            both == Cardinality(CellsOf(a) \cap CellsOf(b))
            either == Cardinality(CellsOf(a) \cup CellsOf(b))
        IN  /\ iou = calculate_iou(GhostTrack(1, b, 0), a)
            /\ (a = b /\ CellsOf(a) # {}) => iou = <<1, 1>>
            /\ both = 0 => iou = <<0, 1>>
            /\ either = 0 => iou = <<0, 1>>
            /\ either > 0 => iou[1] * either = both * iou[2]

\* two unequal bboxes that overlap in part were compared
C30_Witness ==
    /\ compared # <<>>
    /\ compared[1].ghost.bbox = <<0, 0, 2, 1>>
    /\ compared[1].bbox = <<1, 0, 2, 2>>
    /\ compared[1].iou = <<1, 3>>

----------------------------------------------------------------------------
(* The tracker's books after a call *)

C32_FreshGhost ==
    \A k \in DOMAIN ghost_tracks' :
        LET ghost == ghost_tracks'[k]
        IN  IF ghost.tracker_id \in GhostIds(ghost_tracks)
            THEN ghost = GhostOf(ghost_tracks, ghost.tracker_id)
            ELSE /\ ghost.last_seen_frame = frame_count
                 /\ ghost.center = calculate_center(ghost.bbox)
                 /\ \E j \in DOMAIN new_tracker_ids :
                       /\ new_tracker_ids[j] = ghost.tracker_id
                       /\ tracked_detections[j].xyxy = ghost.bbox

\* the last_seen_frame of every ghost is the last frame that output its ID
C32_SeenWhenLastOutput ==
    \A k \in DOMAIN ghost_tracks :
        /\ ghost_tracks[k].tracker_id \in DOMAIN last_output_frame
        /\ ghost_tracks[k].last_seen_frame = last_output_frame[ghost_tracks[k].tracker_id]

\* C32: every ghost in the buffer carries the bbox its track had in the last
\* frame in which its ID was output and that frame's index as last_seen_frame,
\* also when the ID is lost a second time: a ghost is put into the buffer with
\* the bbox and the index of the frame before, is left as it is afterwards,
\* and its last_seen_frame is at all times the last frame that output its ID.
C32_GhostCarriesLastOutput == []C32_SeenWhenLastOutput /\ [][C32_FreshGhost]_vars

----------------------------------------------------------------------------
(* Ties between ghosts *)

\* where a ghost stands in the buffer: 0 for none
PlaceOf(ghosts, tid) ==
    IF tid \in GhostIds(ghosts)
    THEN CHOOSE k \in DOMAIN ghosts : ghosts[k].tracker_id = tid
    ELSE 0

\* the bbox of the ghost g that the call reclaims: the record of the buffer, or
\* that of active_tracks when g is lost in the same call
ReclaimedBox(g) ==
    IF g \in GhostIds(ghost_tracks) THEN GhostOf(ghost_tracks, g).bbox ELSE active_tracks[g]

\* the ghosts left in the buffer that met the criteria for the detection of
\* record r with the same score as the reclaimed ghost
TiedWith(r) ==
    LET bbox == tracked_detections'[tracking_log'[r].bbox_index + 1].xyxy
        g == tracking_log'[r].restored_id
    IN  {k \in DOMAIN ghost_tracks' :
            /\ C2_Criteria(ghost_tracks'[k].bbox, bbox)
            /\ C2_Score(ghost_tracks'[k].bbox, bbox) = C2_Score(ReclaimedBox(g), bbox)}

\* C33: when several unused ghosts meet the criteria for a detection with the
\* same best score, the call reclaims the one with the smallest ID.
C33_TieToSmallerId ==
    [][\A r \in Restored(tracking_log') : \A k \in TiedWith(r) :
          tracking_log'[r].restored_id < ghost_tracks'[k].tracker_id]_vars

\* C33, amended: it reclaims the one that was put into the buffer first: a
\* ghost with the same score that is left in the buffer was put there after
\* the reclaimed one, or in the same call.
C33_TieToFirstInserted ==
    [][\A r \in Restored(tracking_log') : \A k \in TiedWith(r) :
          LET g == tracking_log'[r].restored_id
              h == ghost_tracks'[k].tracker_id
          IN  IF g \in GhostIds(ghost_tracks)
              THEN h \in GhostIds(ghost_tracks)
                   => PlaceOf(ghost_tracks, g) < PlaceOf(ghost_tracks, h)
              ELSE h \notin GhostIds(ghost_tracks)]_vars

\* a ghost was reclaimed for a detection at its bbox while a ghost with a
\* smaller ID and the same bbox stays in the buffer
C33_Witness ==
    \E r \in Restored(tracking_log) : \E k \in DOMAIN ghost_tracks :
        /\ ghost_tracks[k].bbox = tracked_detections[tracking_log[r].bbox_index + 1].xyxy
        /\ ghost_tracks[k].tracker_id < tracking_log[r].restored_id
        /\ ghost_tracks[k].last_seen_frame > 1

----------------------------------------------------------------------------
(* Two detections and one ghost *)

\* the detections of the call made in the step that were restored from ghost g
RestoredFrom(g) ==
    {tracking_log'[r].bbox_index + 1 :
        r \in {q \in Restored(tracking_log') : tracking_log'[q].restored_id = g}}

\* the IDs of the ghosts the call of the step could match: those it reclaimed
\* and those it left in the buffer
Matchable == {tracking_log'[r].restored_id : r \in Restored(tracking_log')}
                 \cup GhostIds(ghost_tracks')

\* the bbox of such a ghost when the call matched it
MatchableBox(g) ==
    IF g \in GhostIds(ghost_tracks') THEN GhostOf(ghost_tracks', g).bbox
    ELSE ReclaimedBox(g)

\* the detections i < j of the call made in the step were both looked up in
\* the buffer and both met the criteria for ghost g
Compete(i, j, g) ==
    /\ i < j
    /\ i \in DOMAIN tracked_detections' /\ j \in DOMAIN tracked_detections'
    /\ {i, j} \subseteq {tracking_log'[k].bbox_index + 1 :
                            k \in {q \in DOMAIN tracking_log' :
                                      tracking_log'[q].event = "GHOST_MATCHING_ATTEMPT"}}
    /\ g \in Matchable
    /\ C2_Criteria(MatchableBox(g), tracked_detections'[i].xyxy)
    /\ C2_Criteria(MatchableBox(g), tracked_detections'[j].xyxy)

\* C34: when two detections of a frame both meet the criteria for a ghost, the
\* ghost's ID goes to the one with the higher score, whatever their order in
\* the list, and the other is matched against the remaining ghosts (checked
\* for frames whose provisional IDs are distinct).
C34_HigherScoreWins ==
    [][\A i, j \in 1..MaxDets : \A g \in TrackIds :
          (Compete(i, j, g) /\ DistinctIds(tracked_detections')) =>
              LET si == C2_Score(MatchableBox(g), tracked_detections'[i].xyxy)
                  sj == C2_Score(MatchableBox(g), tracked_detections'[j].xyxy)
              IN  /\ (i \in RestoredFrom(g) => RatGE(si, sj))
                  /\ (j \in RestoredFrom(g) => RatGE(sj, si))
                  /\ Cardinality(RestoredFrom(g)) <= 1]_vars

\* no detection before i was looked up in the buffer and met the criteria for
\* ghost g
FirstFor(i, g) == \A e \in 1..(i - 1) : ~Compete(e, i, g)

\* C34, amended: of the detections of a frame that are looked up in the buffer
\* and meet the criteria for a ghost, the ghost's ID goes to the one that
\* comes first in the list, whatever the scores, unless that detection is
\* restored from a ghost that scores at least as high for it; a later
\* detection is matched against the remaining ghosts only: it gets the
\* ghost's ID only when the first did not, and when it is not restored at all
\* no ghost left in the buffer meets the criteria for it.
C34_FirstDetectionWins ==
    [][\A i, j \in 1..MaxDets : \A g \in TrackIds :
          (Compete(i, j, g) /\ FirstFor(i, g)) =>
              /\ Cardinality(RestoredFrom(g)) <= 1
              /\ j \in RestoredFrom(g) =>
                    \E h \in TrackIds \ {g} :
                        /\ i \in RestoredFrom(h)
                        /\ RatGE(C2_Score(ReclaimedBox(h), tracked_detections'[i].xyxy),
                                 C2_Score(ReclaimedBox(g), tracked_detections'[i].xyxy))
              /\ \/ \E h \in TrackIds : i \in RestoredFrom(h)
                 \/ g \in GhostIds(ghost_tracks')
              /\ (\A h \in TrackIds : j \notin RestoredFrom(h)) =>
                    \A k \in DOMAIN ghost_tracks' :
                        ~C2_Criteria(ghost_tracks'[k].bbox, tracked_detections'[j].xyxy)]_vars

\* the first of two detections, half a box away, was restored from the ghost
\* whose ID the base tracker gave to the second, which is where the ghost was
C34_Witness ==
    /\ Len(tracked_detections) = 2
    /\ Searched = {1, 2}
    /\ tracked_detections[1].xyxy = BoxB
    /\ tracked_detections[2].xyxy = BoxA
    /\ \E r \in Restored(tracking_log) :
          /\ tracking_log[r].bbox_index = 0
          /\ tracking_log[r].restored_id = tracked_detections[2].tracker_id
    /\ \A k \in DOMAIN tracking_log :
          tracking_log[k].event # "SUSPICIOUS_REASSIGNMENT_DETECTED"
    /\ active_tracks[tracked_detections[2].tracker_id] = BoxB

----------------------------------------------------------------------------
(* A frame without detections *)

\* what a call with an empty detection list does
EmptyFrameAges ==
    /\ frame_count' = frame_count + 1
    /\ \A tid \in last_frame_active_ids \ {NoTrack} :
          \E k \in DOMAIN ghost_tracks' :
              /\ ghost_tracks'[k].tracker_id = tid
              /\ ghost_tracks'[k].last_seen_frame = frame_count' - 1
    /\ \A k \in DOMAIN ghost_tracks' :
          frame_count' - ghost_tracks'[k].last_seen_frame <= ghost_buffer_frames
    /\ \A k \in DOMAIN ghost_tracks :
          frame_count' - ghost_tracks[k].last_seen_frame <= ghost_buffer_frames
          => \E j \in DOMAIN ghost_tracks' : ghost_tracks'[j] = ghost_tracks[k]
    /\ new_tracker_ids' = <<>>
    /\ last_frame_active_ids' = {}

\* C35: a call with an empty detection list adds one to frame_count, puts
\* every ID output in the frame before into the ghost buffer with
\* last_seen_frame = frame_count - 1, removes the ghosts older than
\* ghost_buffer_frames and no others, outputs no ID and leaves
\* last_frame_active_ids empty.
C35_EmptyFrameAgesGhosts ==
    [][(frame_count' # frame_count /\ tracked_detections' = <<>>) => EmptyFrameAges]_vars

----------------------------------------------------------------------------
(* Entry times and totals of a zone *)

\* the places in the log of the events of one kind of a zone and a person
LoggedAt(z, p, kind) ==
    {k \in DOMAIN analytics_data :
        /\ analytics_data[k].zone_id = z
        /\ analytics_data[k].person_id = p
        /\ analytics_data[k].event = kind}

\* C36: after every update_zone_tracking call the keys of zone_entries[zone]
\* are exactly the IDs now in the zone: the entry time is cleared when the
\* exit is emitted.
C36_EntryTimesOfPresent ==
    \A z \in DOMAIN zone_entries : DOMAIN zone_entries[z] = zone_current[z]

\* C36, amended: the keys of zone_entries[zone] are the IDs that ever entered
\* the zone, those now in it among them; the entry time is that of the
\* latest entry and is kept when the exit is emitted.
C36_EntryTimesKept ==
    \A z \in DOMAIN zone_entries :
        /\ zone_current[z] \subseteq DOMAIN zone_entries[z]
        /\ DOMAIN zone_entries[z] = {p \in PersonIds : LoggedAt(z, p, "entry") # {}}
        /\ \A p \in DOMAIN zone_entries[z] :
              \E k \in LoggedAt(z, p, "entry") :
                  /\ \A j \in LoggedAt(z, p, "entry") : j <= k
                  /\ analytics_data[k].timestamp = zone_entries[z][p]

\* a person has entered a zone a second time, later than the first, while
\* another who left it still has an entry time
C36_Witness ==
    \E z \in DOMAIN zone_entries : \E p, q \in DOMAIN zone_entries[z] :
        /\ p \in zone_current[z]
        /\ Cardinality(LoggedAt(z, p, "entry")) = 2
        /\ \E k \in LoggedAt(z, p, "entry") : analytics_data[k].timestamp < zone_entries[z][p]
        /\ q \notin zone_current[z]
        /\ LoggedAt(z, q, "exit") # {}

\* the number of events of one kind logged for a zone
LoggedIn(z, kind) ==
    Cardinality({k \in DOMAIN analytics_data :
                    analytics_data[k].zone_id = z /\ analytics_data[k].event = kind})

\* C40: in the summary of get_zone_analytics total_entries is the number of
\* entry events logged for the zone and total_exits the number of exit
\* events logged for it, also when a person enters and leaves several times.
C40_TotalsCountEvents ==
    \A z \in DOMAIN zone_entries :
        /\ ZoneAnalytics(z).total_entries = LoggedIn(z, "entry")
        /\ ZoneAnalytics(z).total_exits = LoggedIn(z, "exit")

----------------------------------------------------------------------------
(* Timestamps that repeat or go back *)

\* a script builds one of the three detectors; the timestamp is an argument
\* of classify_activity and may repeat or go back
Stamps == 1..MaxStamp

Unfilled(histories) ==
    \A person_id \in DOMAIN histories : Len(histories[person_id]) < StampedSamples

TemporalSampled ==
    /\ ad_pose_history = <<>> /\ pa_pose_history = <<>>
    /\ Unfilled(pt_keypoint_history)
    /\ \E person_id \in RingPersons, pose \in UprightPoses, timestamp \in Stamps :
          \E pt \in {TemporalClassified(PT, person_id, pose, timestamp)} :
                /\ pt_keypoint_history' = pt.keypoint_history
                /\ pt_activity_history' = pt.activity_history
    /\ UNCHANGED <<ad_pose_history, ad_activity_history, pa_pose_history,
                   pa_activity_history>>
    /\ UNCHANGED <<tracker_vars, zone_vars, last_output_frame, compared>>
    /\ UNCHANGED returned

BoxSampled ==
    /\ pt_keypoint_history = <<>> /\ pa_pose_history = <<>>
    /\ Unfilled(ad_pose_history)
    /\ \E person_id \in RingPersons, bbox \in {BoxA, BoxD}, timestamp \in Stamps :
          \E ad \in {BoxClassified(AD, person_id, bbox, timestamp)} :
                /\ ad_pose_history' = ad.pose_history
                /\ ad_activity_history' = ad.activity_history
    /\ UNCHANGED <<pt_keypoint_history, pt_activity_history, pa_pose_history,
                   pa_activity_history>>
    /\ UNCHANGED <<tracker_vars, zone_vars, last_output_frame, compared>>
    /\ UNCHANGED returned

PoseSampled ==
    /\ pt_keypoint_history = <<>> /\ ad_pose_history = <<>>
    /\ Unfilled(pa_pose_history)
    /\ \E person_id \in RingPersons, pose \in UprightPoses, timestamp \in Stamps :
          \E pa \in {PoseClassified(PA, person_id, pose, timestamp)} :
                /\ pa_pose_history' = pa.pose_history
                /\ pa_activity_history' = pa.activity_history
    /\ UNCHANGED <<pt_keypoint_history, pt_activity_history, ad_pose_history,
                   ad_activity_history>>
    /\ UNCHANGED <<tracker_vars, zone_vars, last_output_frame, compared>>
    /\ UNCHANGED returned

SampledNext == TemporalSampled \/ BoxSampled \/ PoseSampled

SpecStamps == ZoneSpecInit /\ [][SampledNext]_vars

\* the pairs of neighbours among the last `pairs` pairs of a history, by the
\* place of the later record
Looked(history, pairs) == {k \in 2..Len(history) : k > Len(history) - pairs}

Interval(history, k) == history[k].timestamp - history[k - 1].timestamp

HipsFound(history, k) ==
    history[k].keypoints.hip # 0 /\ history[k - 1].keypoints.hip # 0

HipMoved(history, k) == Abs(history[k].keypoints.hip - history[k - 1].keypoints.hip)

\* the mean over the pairs S of moved / interval per second, with 0 for the
\* pairs of Z
MeanWithZeros(history, S, Z, moved(_, _)) ==
    RatMean(S \cup Z,
            [k \in S \cup Z |->
                IF k \in Z THEN <<0, 1>>
                ELSE <<moved(history, k) * fps, Interval(history, k)>>])

BoxMoved(history, k) == Norm(history[k].position, history[k - 1].position)

Timed(history, S) == {k \in S : Interval(history, k) > 0}

HipPairs(history, pairs) == {k \in Looked(history, pairs) : HipsFound(history, k)}

\* C37: in every smoothed velocity a pair of neighbouring samples whose
\* timestamps differ by 0 or less is averaged in with the value 0, and
\* nothing is divided by zero.
C37_UntimedPairCountsZero ==
    /\ \A p \in DOMAIN pt_keypoint_history :
          LET h == pt_keypoint_history[p]
              S == HipPairs(h, 4)
          IN  /\ calculate_velocity(h)[2] > 0
              /\ calculate_velocity(h) =
                    MeanWithZeros(h, Timed(h, S), S \ Timed(h, S), HipMoved)
    /\ \A p \in DOMAIN ad_pose_history :
          LET h == ad_pose_history[p]
              S == IF Len(h) < 3 THEN {} ELSE Looked(h, 4)
          IN  /\ calculate_speed(TRUE, h)[2] > 0
              /\ calculate_speed(TRUE, h) =
                    MeanWithZeros(h, Timed(h, S), S \ Timed(h, S), BoxMoved)
    /\ \A p \in DOMAIN pa_pose_history :
          LET h == pa_pose_history[p]
              S == HipPairs(h, 5)
          IN  /\ calculate_average_velocity(h, 5)[2] > 0
              /\ calculate_average_velocity(h, 5) =
                    MeanWithZeros(h, Timed(h, S), S \ Timed(h, S), HipMoved)

\* C37, amended: a pair of neighbouring samples whose timestamps differ by 0
\* or less is left out of the mean, which is taken over the other pairs and
\* is 0 when there is none, and nothing is divided by zero.
C37_UntimedPairLeftOut ==
    /\ \A p \in DOMAIN pt_keypoint_history :
          LET h == pt_keypoint_history[p]
          IN  /\ calculate_velocity(h)[2] > 0
              /\ calculate_velocity(h) =
                    MeanWithZeros(h, Timed(h, HipPairs(h, 4)), {}, HipMoved)
    /\ \A p \in DOMAIN ad_pose_history :
          LET h == ad_pose_history[p]
              S == IF Len(h) < 3 THEN {} ELSE Looked(h, 4)
          IN  /\ calculate_speed(TRUE, h)[2] > 0
              /\ calculate_speed(TRUE, h) = MeanWithZeros(h, Timed(h, S), {}, BoxMoved)
    /\ \A p \in DOMAIN pa_pose_history :
          LET h == pa_pose_history[p]
          IN  /\ calculate_average_velocity(h, 5)[2] > 0
              /\ calculate_average_velocity(h, 5) =
                    MeanWithZeros(h, Timed(h, HipPairs(h, 5)), {}, HipMoved)

\* a history with a repeated timestamp, a timestamp that goes back and one
\* that goes on while the hip moves
C37_Witness ==
    \E p \in DOMAIN pt_keypoint_history :
        LET h == pt_keypoint_history[p]
        IN  /\ Len(h) = StampedSamples
            /\ \E k \in Looked(h, 4) : Interval(h, k) = 0
            /\ \E k \in Looked(h, 4) : Interval(h, k) < 0
            /\ \E k \in Looked(h, 4) : Interval(h, k) > 0 /\ HipMoved(h, k) > 0
            /\ calculate_velocity(h)[1] > 0

----------------------------------------------------------------------------
(* The IDs of one frame *)

\* the base tracker gave every detection of the frame an ID of its own
AllTracked(dets) ==
    /\ DistinctIds(dets)
    /\ \A i \in DOMAIN dets : dets[i].tracker_id # NoTrack

\* C38: when the provisional IDs of a frame are pairwise distinct and none is
\* the sentinel, the final IDs of its detections are pairwise distinct.
C38_FrameIdsUnique ==
    AllTracked(tracked_detections) =>
        \A i, j \in DOMAIN new_tracker_ids :
            i # j => new_tracker_ids[i] # new_tracker_ids[j]

----------------------------------------------------------------------------
(* A restoration in the frames that follow *)

\* runs in which the base tracker gives every detection an ID of its own,
\* with people at two places half a bbox apart
FollowLists ==
    {dets \in DetectionLists :
        /\ AllTracked(dets)
        /\ \A i \in DOMAIN dets : dets[i].xyxy \in {BoxA, BoxB}}

FollowFrame ==
    /\ frame_count < FollowFrames
    /\ \E dets \in FollowLists : update_with_detections(dets)
    /\ UNCHANGED <<zone_vars, last_output_frame, compared, classifier_vars>>

FollowNext == FollowFrame

SpecFollow == SparseInit /\ [][FollowNext]_vars

\* detection k of the last call was rewritten from its provisional ID to
\* another one, and detection i of the call of the step carries the same
\* provisional ID with a bbox that meets the criteria against the bbox of k,
\* while no other detection of the step carries the restored ID or meets the
\* criteria against that bbox
Followed(k, i) ==
    /\ frame_count' = frame_count + 1
    /\ k \in DOMAIN tracked_detections /\ i \in DOMAIN tracked_detections'
    /\ DistinctIds(tracked_detections) /\ DistinctIds(tracked_detections')
    /\ tracked_detections[k].tracker_id # NoTrack
    /\ new_tracker_ids[k] # tracked_detections[k].tracker_id
    /\ tracked_detections'[i].tracker_id = tracked_detections[k].tracker_id
    /\ C2_Criteria(tracked_detections[k].xyxy, tracked_detections'[i].xyxy)
    /\ \A j \in DOMAIN tracked_detections' \ {i} :
          /\ tracked_detections'[j].tracker_id # new_tracker_ids[k]
          /\ ~C2_Criteria(tracked_detections[k].xyxy, tracked_detections'[j].xyxy)

\* C39: a restoration is stable: once a detection with the provisional ID N
\* has been rewritten to the ghost ID G, the next frame in which N comes with
\* a bbox that meets the criteria against its last bbox, and no other
\* detection competes for G, outputs G for it again, frame after frame.
C39_RestorationStable ==
    [][\A k, i \in 1..MaxDets :
          Followed(k, i) => new_tracker_ids'[i] = new_tracker_ids[k]]_vars

====
